---- MODULE Spec2Model ----
(***************************************************************************)
(* A model of the XOAUTH2 SASL client plugin: the per-user token store     *)
(* (src/src/token_store.rs), the two-step client state machine             *)
(* (src/src/client.rs), the process configuration (src/src/config.rs) and  *)
(* the per-session log (src/src/log.rs).                                   *)
(*                                                                         *)
(* Strings are TLA+ strings.  A JSON value is a record [t, s, n] with a    *)
(* tag t, a string payload s and an integer payload n; a JSON object is a  *)
(* function from its field names to JSON values, a missing field having    *)
(* the tag "absent".  An Option<String> is a record [some, v].             *)
(***************************************************************************)
EXTENDS Integers, Sequences, FiniteSets, TLC

VARIABLES
    now,      \* the system clock, in seconds since the epoch
    files,    \* the file system: a function from the paths that exist to their content
    config,   \* the process configuration (Config::get)
    store,    \* a TokenStore driven directly by its public operations
    client,   \* the session (Client) of the current exchange
    tally,    \* what the store, or the session, has done since it was created
    last,     \* what the last operation was given, did and returned
    log,      \* a Log driven directly by its public operations
    syslog,   \* the lines that Log has handed to syslog, in order
    writers   \* the stores that are inside write() at the same time

vars == <<now, files, config, store, client, tally, last, log, syslog, writers>>

----------------------------------------------------------------------------
(* Bounds of the model *)

\* The clock stops advancing here.
MaxNow == 2
\* Integers written as decimal text are recognised up to this magnitude.
IntBound == 12
\* TokenStores that one session constructs.
MaxStores == 2
\* Sessions that the host creates, one after the other.
MaxSessions == 2
\* Messages written to one Log.
MaxLines == 3
\* Calls of flush() on one Log, that of its drop included.
MaxFlushes == 2

----------------------------------------------------------------------------
(* Program constants *)

MAX_REFRESH_ATTEMPTS == 2

SASL_OK == "SASL_OK"
SASL_INTERACT == "SASL_INTERACT"
SASL_FAIL == "SASL_FAIL"
SASL_NOMEM == "SASL_NOMEM"
SASL_BADPROT == "SASL_BADPROT"
SASL_BADPARAM == "SASL_BADPARAM"
SASL_TRYAGAIN == "SASL_TRYAGAIN"
SASL_NOUSER == "SASL_NOUSER"

SASL_CB_AUTHNAME == "SASL_CB_AUTHNAME"
SASL_CB_PASS == "SASL_CB_PASS"
SASL_CB_LIST_END == "SASL_CB_LIST_END"

\* The byte 0x01 that separates the fields of the XOAUTH2 response.
SOH == "\\x01"
NUL == "\\x00"

----------------------------------------------------------------------------
(* Options, JSON values, decimal text *)

None == [some |-> FALSE, v |-> ""]
Some(s) == [some |-> TRUE, v |-> s]

JAbsent == [t |-> "absent", s |-> "", n |-> 0]
JNull == [t |-> "null", s |-> "", n |-> 0]
JStr(s) == [t |-> "str", s |-> s, n |-> 0]
JInt(n) == [t |-> "int", s |-> "", n |-> n]
JBool(b) == [t |-> "bool", s |-> "", n |-> IF b THEN 1 ELSE 0]
\* A float, an array or an object.
JOther == [t |-> "other", s |-> "", n |-> 0]

\* serde_json's Value::as_str
AsStr(j) == IF j.t = "str" THEN Some(j.s) ELSE None

\* i64::to_string
I64ToString(n) == ToString(n)

\* The decimal texts that i64::from_str reads as n: an optional sign, then
\* digits, leading zeros allowed; no blanks, and never the empty text.
I64Lexemes(n) ==
    {ToString(n)}
        \cup (IF n >= 0 THEN {"+" \o ToString(n), "0" \o ToString(n)} ELSE {})
        \cup (IF n = 0 THEN {"-0"} ELSE {})

\* The texts that are read as an integer, and the integer each is read as.
I64Texts == UNION {I64Lexemes(n) : n \in -IntBound..IntBound}
I64Value == [s \in I64Texts |-> CHOOSE n \in -IntBound..IntBound : s \in I64Lexemes(n)]

\* str::parse::<i64>().ok()
ParseI64(s) ==
    IF s \in I64Texts THEN [ok |-> TRUE, n |-> I64Value[s]]
    ELSE [ok |-> FALSE, n |-> 0]

----------------------------------------------------------------------------
(* The token file *)

TokenFields ==
    {"access_token", "refresh_token", "expiry", "user", "client_id",
     "client_secret", "token_endpoint", "refresh_window"}

\* A string field that is given a default whether or not it declares one.
DeStringAlwaysDefault(j, hasDefault) ==
    CASE j.t = "str" -> [ok |-> TRUE, v |-> j.s]
      [] j.t = "absent" -> [ok |-> TRUE, v |-> ""]
      [] OTHER -> [ok |-> FALSE, v |-> ""]

\* #[serde(default)] access_token: String
DeString(j, hasDefault) ==
    CASE j.t = "str" -> [ok |-> TRUE, v |-> j.s]
      [] j.t = "absent" -> [ok |-> hasDefault, v |-> ""]
      [] OTHER -> [ok |-> FALSE, v |-> ""]

\* #[serde(default)] Option<String>
DeOptString(j) ==
    CASE j.t = "str" -> [ok |-> TRUE, v |-> Some(j.s)]
      [] j.t \in {"absent", "null"} -> [ok |-> TRUE, v |-> None]
      [] OTHER -> [ok |-> FALSE, v |-> None]

\* A field that is a string or an integer, read into an Option<String>.
deserialize_string_or_int(j) ==
    CASE j.t = "str" -> [ok |-> TRUE, v |-> Some(j.s)]
      [] j.t = "int" -> [ok |-> TRUE, v |-> Some(I64ToString(j.n))]
      [] j.t \in {"absent", "null"} -> [ok |-> TRUE, v |-> None]
      [] OTHER -> [ok |-> FALSE, v |-> None]

EmptyTokenFile ==
    [access_token |-> "", refresh_token |-> "", expiry |-> None, user |-> None,
     client_id |-> None, client_secret |-> None, token_endpoint |-> None,
     refresh_window |-> None]

\* serde_json::from_str::<TokenFile> on a JSON object
DeserializeTokenFile(doc) ==
    LET at == DeString(doc["access_token"], TRUE)
        rt == DeString(doc["refresh_token"], FALSE)
        ex == deserialize_string_or_int(doc["expiry"])
        us == DeOptString(doc["user"])
        ci == DeOptString(doc["client_id"])
        cs == DeOptString(doc["client_secret"])
        te == DeOptString(doc["token_endpoint"])
        rw == deserialize_string_or_int(doc["refresh_window"])
    IN  IF at.ok /\ rt.ok /\ ex.ok /\ us.ok /\ ci.ok /\ cs.ok /\ te.ok /\ rw.ok
        THEN [ok |-> TRUE,
              token |-> [access_token |-> at.v, refresh_token |-> rt.v,
                         expiry |-> ex.v, user |-> us.v, client_id |-> ci.v,
                         client_secret |-> cs.v, token_endpoint |-> te.v,
                         refresh_window |-> rw.v]]
        ELSE [ok |-> FALSE, token |-> EmptyTokenFile]

\* An Option written as its string even when it is None.
SerOptStringNoNull(o) == JStr(o.v)

\* An Option<String> as serde writes it.
SerOptString(o) == IF o.some THEN JStr(o.v) ELSE JNull

\* serde_json::to_string_pretty(&TokenFile): every field is written, an
\* Option as its string or as null.
SerializeTokenFile(token) ==
    [f \in TokenFields |->
        CASE f = "access_token" -> JStr(token.access_token)
          [] f = "refresh_token" -> JStr(token.refresh_token)
          [] OTHER -> SerOptString(token[f])]

\* What a path can hold: text that is a JSON object, text that is not, or
\* the beginning of a text whose writing failed.
JsonFile(doc) == [kind |-> "json", doc |-> doc]
EmptyDoc == [f \in TokenFields |-> JAbsent]
GarbageFile == [kind |-> "garbage", doc |-> EmptyDoc]
PartialFile == [kind |-> "partial", doc |-> EmptyDoc]

----------------------------------------------------------------------------
(* TokenStore *)

NoStore == [present |-> FALSE, path |-> "", token |-> EmptyTokenFile,
            expiry |-> 0, refresh_attempts |-> 0]

\* TokenStore::new
TokenStoreNew(fs, path) ==
    IF path \notin DOMAIN fs THEN NoStore
    ELSE IF fs[path].kind # "json" THEN NoStore
    ELSE LET d == DeserializeTokenFile(fs[path].doc)
             e == IF d.token.expiry.some THEN ParseI64(d.token.expiry.v)
                  ELSE [ok |-> FALSE, n |-> 0]
         IN  IF ~d.ok THEN NoStore
             ELSE [present |-> TRUE, path |-> path, token |-> d.token,
                   expiry |-> IF e.ok THEN e.n ELSE 0,
                   refresh_attempts |-> 0]

\* TokenStore::user
StoreUser(s) == s.token.user

\* std::process::id(), as it appears in the name of the temporary file.
Pid == "pid"

\* The name write() gives its temporary file: <path>.<pid>.<milliseconds>
TempName(path, pid, millis) == path \o "." \o pid \o "." \o ToString(millis)
TempPath(path, t) == TempName(path, Pid, t * 1000)

\* What the file system lets write() do.
FsOutcomes == {"ok", "create_fails", "write_fails", "rename_fails"}

\* fs::rename(from, to)
Rename(fs, from, to) ==
    [p \in (DOMAIN fs \ {from}) \cup {to} |-> IF p = to THEN fs[from] ELSE fs[p]]

\* A write() that reports its failures as protocol errors.
WriteFailsAsProtocolError(s, fs, t, out) ==
    LET temp_path == TempPath(s.path, t)
        json == JsonFile(SerializeTokenFile(s.token))
    IN  CASE out = "create_fails" -> [files |-> fs, rc |-> SASL_BADPROT]
          [] out = "write_fails" ->
                [files |-> (temp_path :> PartialFile) @@ fs, rc |-> SASL_BADPROT]
          [] out = "rename_fails" ->
                [files |-> (temp_path :> json) @@ fs, rc |-> SASL_BADPROT]
          [] OTHER ->
                [files |-> Rename((temp_path :> json) @@ fs, temp_path, s.path),
                 rc |-> SASL_OK]

\* A write() that reports success with the record still in the temporary
\* file.
WriteNeverRenames(s, fs, t, out) ==
    LET temp_path == TempPath(s.path, t)
        json == JsonFile(SerializeTokenFile(s.token))
    IN  CASE out = "create_fails" -> [files |-> fs, rc |-> SASL_FAIL]
          [] out = "write_fails" ->
                [files |-> (temp_path :> PartialFile) @@ fs, rc |-> SASL_FAIL]
          [] out = "rename_fails" ->
                [files |-> (temp_path :> json) @@ fs, rc |-> SASL_FAIL]
          [] OTHER -> [files |-> (temp_path :> json) @@ fs, rc |-> SASL_OK]

\* TokenStore::write at clock t: the record goes to a temporary file, which
\* is then renamed over the token file.
Write(s, fs, t, out) ==
    LET temp_path == TempPath(s.path, t)
        json == JsonFile(SerializeTokenFile(s.token))
    IN  CASE out = "create_fails" -> [files |-> fs, rc |-> SASL_FAIL]
          [] out = "write_fails" ->
                [files |-> (temp_path :> PartialFile) @@ fs, rc |-> SASL_FAIL]
          [] out = "rename_fails" ->
                [files |-> (temp_path :> json) @@ fs, rc |-> SASL_FAIL]
          [] OTHER ->
                [files |-> Rename((temp_path :> json) @@ fs, temp_path, s.path),
                 rc |-> SASL_OK]

\* Where the process can stop inside write(): before the temporary file is
\* created, while it is written, or on either side of the rename.
CrashPoints == {"before_create", "in_write", "before_rename", "after_rename"}

\* A write() that writes the token file in place.
WriteStopsInPlace(s, fs, t, at) ==
    CASE at = "before_create" -> fs
      [] at = "in_write" -> (s.path :> PartialFile) @@ fs
      [] OTHER -> (s.path :> JsonFile(SerializeTokenFile(s.token))) @@ fs

\* The files that write() leaves when the process stops in it at point at.
WriteStops(s, fs, t, at) ==
    CASE at = "before_create" -> fs
      [] at = "in_write" -> (TempPath(s.path, t) :> PartialFile) @@ fs
      [] at = "before_rename" ->
            (TempPath(s.path, t) :> JsonFile(SerializeTokenFile(s.token))) @@ fs
      [] OTHER ->
            Rename((TempPath(s.path, t) :> JsonFile(SerializeTokenFile(s.token))) @@ fs,
                   TempPath(s.path, t), s.path)

\* The form that refresh() posts, and where it posts it.
NoRequest ==
    [token_endpoint |-> "", client_id |-> "", client_secret |-> "",
     grant_type |-> "", refresh_token |-> ""]
RefreshRequest(s, cfg) ==
    [token_endpoint |-> IF s.token.token_endpoint.some
                        THEN s.token.token_endpoint.v ELSE cfg.token_endpoint,
     client_id |-> IF s.token.client_id.some
                   THEN s.token.client_id.v ELSE cfg.client_id,
     client_secret |-> IF s.token.client_secret.some
                       THEN s.token.client_secret.v ELSE cfg.client_secret,
     grant_type |-> "refresh_token",
     refresh_token |-> s.token.refresh_token]

\* expires_in of the response: a JSON integer, or a string that parses as one.
ExpiresIn(j) ==
    CASE j.t = "int" -> [ok |-> TRUE, n |-> j.n]
      [] j.t = "str" -> ParseI64(j.s)
      [] OTHER -> [ok |-> FALSE, n |-> 0]

\* A refresh that never takes the new refresh token.
RotateRefreshTokenNever(held, j) == held

\* The refresh token after a response: a string that differs from the held
\* one replaces it.
RotateRefreshToken(held, j) ==
    IF AsStr(j).some /\ AsStr(j).v # held THEN AsStr(j).v ELSE held

\* A ceiling that lets one attempt too many through.
AttemptsExhaustedOffByOne(s) == s.refresh_attempts > MAX_REFRESH_ATTEMPTS

\* The attempt ceiling of refresh().
AttemptsExhausted(s) == s.refresh_attempts >= MAX_REFRESH_ATTEMPTS

\* The end of refresh(): the record the response gave is written back, and
\* the result of write() is the result of refresh().
RefreshDone(s2, w, req, t2) ==
    [store |-> s2, files |-> w.files, rc |-> w.rc, net |-> 1, req |-> req,
     now |-> t2]

\* The record after a good response, with the lifetime taken for the expiry.
RefreshedNoClock(s1, doc, access_token, expires_in, t2) ==
    [s1 EXCEPT
        !.token.access_token = access_token,
        !.token.refresh_token = RotateRefreshToken(@, doc["refresh_token"]),
        !.expiry = expires_in,
        !.token.expiry = Some(I64ToString(expires_in))]

\* The record after a good response: the new access token, the refresh
\* token rotated, the expiry set from the clock.
Refreshed(s1, doc, access_token, expires_in, t2) ==
    [s1 EXCEPT
        !.token.access_token = access_token,
        !.token.refresh_token = RotateRefreshToken(@, doc["refresh_token"]),
        !.expiry = t2 + expires_in,
        !.token.expiry = Some(I64ToString(t2 + expires_in))]

\* refresh() once the attempt is counted: the call, the checks of the
\* response, the update of the record and its write.
RefreshAttempt(s1, fs, t2, req, e) ==
    LET doc == e.net.body.doc
        access_token == AsStr(doc["access_token"])
        expires_in == ExpiresIn(doc["expires_in"])
        failed == [store |-> s1, files |-> fs, rc |-> SASL_BADPROT, net |-> 1,
                   req |-> req, now |-> t2]
    IN  IF e.net.kind # "http" THEN failed
        ELSE IF e.net.status # 200 THEN failed
        ELSE IF e.net.body.kind # "json" THEN failed
        ELSE IF ~access_token.some THEN failed
        ELSE IF ~expires_in.ok THEN failed
        ELSE IF expires_in.n <= 0 THEN failed
        ELSE RefreshDone(Refreshed(s1, doc, access_token.v, expires_in.n, t2),
                         Write(Refreshed(s1, doc, access_token.v, expires_in.n, t2),
                               fs, t2, e.fs),
                         req, t2)

\* A refresh that counts an attempt only when the endpoint answers.
RefreshCountsAnswers(s, fs, t, cfg, e) ==
    IF AttemptsExhausted(s)
    THEN [store |-> s, files |-> fs, rc |-> SASL_BADPROT, net |-> 0,
          req |-> NoRequest, now |-> t]
    ELSE RefreshAttempt([s EXCEPT !.refresh_attempts =
                                    IF e.net.kind = "http" THEN @ + 1 ELSE @],
                        fs, t + e.d, RefreshRequest(s, cfg), e)

\* TokenStore::refresh, entered at clock t.  e.net is what the token endpoint
\* answers, e.d how long the call takes, e.fs what the file system lets
\* write() do.  net counts the calls made to the token endpoint.
Refresh(s, fs, t, cfg, e) ==
    IF AttemptsExhausted(s)
    THEN [store |-> s, files |-> fs, rc |-> SASL_BADPROT, net |-> 0,
          req |-> NoRequest, now |-> t]
    ELSE RefreshAttempt([s EXCEPT !.refresh_attempts = @ + 1], fs, t + e.d,
                        RefreshRequest(s, cfg), e)

\* The refresh window of get_access_token: the token file's own, else the
\* configuration's.
RefreshWindow(s, cfg) ==
    LET w == IF s.token.refresh_window.some
             THEN ParseI64(s.token.refresh_window.v)
             ELSE [ok |-> FALSE, n |-> 0]
    IN  IF w.ok THEN w.n ELSE cfg.refresh_window

\* A staleness test that lets a token live to the second it is due.
NeedsRefreshStrict(s, t, cfg) == (t + RefreshWindow(s, cfg)) > s.expiry

\* A staleness test with the comparison turned round.
NeedsRefreshInverted(s, t, cfg) == (t + RefreshWindow(s, cfg)) <= s.expiry

\* The staleness test of get_access_token at clock t.
NeedsRefresh(s, t, cfg) == (t + RefreshWindow(s, cfg)) >= s.expiry

\* get_access_token after its refresh: the error of the refresh, or the
\* access token the record now holds.
AfterRefresh(r) ==
    [store |-> r.store, files |-> r.files, ok |-> r.rc = SASL_OK, rc |-> r.rc,
     token |-> IF r.rc = SASL_OK THEN r.store.token.access_token ELSE "",
     refreshes |-> 1, net |-> r.net, req |-> r.req, now |-> r.now]

\* TokenStore::get_access_token, entered at clock t.  ok tells Ok from Err,
\* token is the access token of Ok, refreshes counts the calls of refresh().
GetAccessToken(s, fs, t, cfg, e) ==
    IF NeedsRefresh(s, t, cfg)
    THEN AfterRefresh(Refresh(s, fs, t, cfg, e))
    ELSE [store |-> s, files |-> fs, ok |-> TRUE, rc |-> SASL_OK,
          token |-> s.token.access_token, refreshes |-> 0, net |-> 0,
          req |-> NoRequest, now |-> t]

----------------------------------------------------------------------------
(* Config *)

DEFAULT_CONFIG_PATH == "/etc/sasl-xoauth2.conf"
DEFAULT_TOKEN_ENDPOINT == "https://login.microsoftonline.com/common/oauth2/v2.0/token"
default_refresh_window == 10

ConfigFields ==
    {"client_id", "client_secret", "token_endpoint", "log_to_syslog_on_failure",
     "always_log_to_syslog", "log_full_trace_on_failure", "refresh_window"}

\* The static CONFIG before it is set.
NoConfig ==
    [set |-> FALSE, client_id |-> "", client_secret |-> "", token_endpoint |-> "",
     refresh_window |-> 0, log_to_syslog_on_failure |-> FALSE,
     always_log_to_syslog |-> FALSE, log_full_trace_on_failure |-> FALSE]

\* A String field of Config with its default.
DeConfigString(j, default) ==
    CASE j.t = "str" -> [ok |-> TRUE, v |-> j.s]
      [] j.t = "absent" -> [ok |-> TRUE, v |-> default]
      [] OTHER -> [ok |-> FALSE, v |-> ""]

\* A bool field of Config with its default.
DeConfigBool(j, default) ==
    CASE j.t = "bool" -> [ok |-> TRUE, v |-> j.n = 1]
      [] j.t = "absent" -> [ok |-> TRUE, v |-> default]
      [] OTHER -> [ok |-> FALSE, v |-> FALSE]

\* The i64 field of Config with its default.
DeConfigI64(j, default) ==
    CASE j.t = "int" -> [ok |-> TRUE, v |-> j.n]
      [] j.t = "absent" -> [ok |-> TRUE, v |-> default]
      [] OTHER -> [ok |-> FALSE, v |-> 0]

\* serde_json::from_str::<Config> on a JSON object
DeserializeConfig(doc) ==
    LET ci == DeConfigString(doc["client_id"], "")
        cs == DeConfigString(doc["client_secret"], "")
        te == DeConfigString(doc["token_endpoint"], DEFAULT_TOKEN_ENDPOINT)
        lf == DeConfigBool(doc["log_to_syslog_on_failure"], TRUE)
        al == DeConfigBool(doc["always_log_to_syslog"], FALSE)
        ft == DeConfigBool(doc["log_full_trace_on_failure"], FALSE)
        rw == DeConfigI64(doc["refresh_window"], default_refresh_window)
    IN  IF ci.ok /\ cs.ok /\ te.ok /\ lf.ok /\ al.ok /\ ft.ok /\ rw.ok
        THEN [ok |-> TRUE,
              config |-> [set |-> TRUE, client_id |-> ci.v, client_secret |-> cs.v,
                          token_endpoint |-> te.v, refresh_window |-> rw.v,
                          log_to_syslog_on_failure |-> lf.v,
                          always_log_to_syslog |-> al.v,
                          log_full_trace_on_failure |-> ft.v]]
        ELSE [ok |-> FALSE, config |-> NoConfig]

\* OnceLock::set: the value is taken only while the cell is empty.
OnceLockSet(cell, value) == IF cell.set THEN cell ELSE value

\* An init that stores what it has read, set or not.
init_from_path_overwriting(cell, fs, path) ==
    IF path \notin DOMAIN fs \/ fs[path].kind # "json"
    THEN [config |-> cell, rc |-> SASL_FAIL]
    ELSE IF ~DeserializeConfig(fs[path].doc).ok
    THEN [config |-> cell, rc |-> SASL_FAIL]
    ELSE [config |-> DeserializeConfig(fs[path].doc).config, rc |-> SASL_OK]

\* Config::init_from_path, on the static CONFIG as it stands
init_from_path(cell, fs, path) ==
    IF path \notin DOMAIN fs \/ fs[path].kind # "json"
    THEN [config |-> cell, rc |-> SASL_FAIL]
    ELSE IF ~DeserializeConfig(fs[path].doc).ok
    THEN [config |-> cell, rc |-> SASL_FAIL]
    ELSE [config |-> OnceLockSet(cell, DeserializeConfig(fs[path].doc).config),
          rc |-> SASL_OK]

----------------------------------------------------------------------------
(* Log *)

LogModes == {"Immediate", "OnFailure", "FullTraceOnFailure", "None"}

NoLog == [alive |-> FALSE, dropped |-> FALSE, mode |-> "None", lines |-> <<>>,
          flush_on_destroy |-> FALSE]

\* Log::new
LogNew(mode) ==
    [alive |-> TRUE, dropped |-> FALSE, mode |-> mode, lines |-> <<>>,
     flush_on_destroy |-> FALSE]

\* The line that write() makes of a message.
LogMessage(msg) == "sasl-xoauth2: " \o msg

\* A message with a NUL byte in it, as the bytes of a server can carry one.
FromServerNul == "Client::token_sent_step: from server: " \o NUL

\* write_to_syslog: the text that syslog is given, which is empty for a line
\* that cannot be made a C string.
write_to_syslog(line) ==
    IF line = LogMessage(FromServerNul) THEN "" ELSE line

\* What syslog is given of a sequence of lines.
ToSyslog(lines) == [i \in 1..Len(lines) |-> write_to_syslog(lines[i])]

\* A write() that hands every message to syslog and keeps it as well.
LogWriteThrough(l, msg) ==
    [log |-> [l EXCEPT !.lines = Append(@, LogMessage(msg))],
     emitted |-> ToSyslog(<<LogMessage(msg)>>)]

\* Log::write: the log after it, and the lines handed to syslog in it.
LogWrite(l, msg) ==
    CASE l.mode = "Immediate" ->
            [log |-> l, emitted |-> ToSyslog(<<LogMessage(msg)>>)]
      [] l.mode \in {"OnFailure", "FullTraceOnFailure"} ->
            [log |-> [l EXCEPT !.lines = Append(@, LogMessage(msg))],
             emitted |-> <<>>]
      [] OTHER -> [log |-> l, emitted |-> <<>>]

\* Log::set_flush_on_destroy
set_flush_on_destroy(l) == [l EXCEPT !.flush_on_destroy = TRUE]

\* Log::flush: the lines handed to syslog; the buffer is kept.
LogFlush(l) ==
    CASE l.mode = "FullTraceOnFailure" -> ToSyslog(l.lines)
      [] l.mode = "OnFailure" ->
            IF Len(l.lines) > 0 THEN ToSyslog(<<l.lines[Len(l.lines)]>>)
            ELSE <<>>
      [] OTHER -> <<>>

\* Drop for Log: the calls of flush() and the lines they hand to syslog.
LogDrop(l) ==
    IF l.flush_on_destroy THEN [flushes |-> 1, emitted |-> LogFlush(l)]
    ELSE [flushes |-> 0, emitted |-> <<>>]

----------------------------------------------------------------------------
(* The environment: token files, the token endpoint, the clock *)

Paths == {"/a", "/b"}

TokenDoc(at, rt, ex, us, ov, rw) ==
    [f \in TokenFields |->
        CASE f = "access_token" -> at
          [] f = "refresh_token" -> rt
          [] f = "expiry" -> ex
          [] f = "user" -> us
          [] f = "refresh_window" -> rw
          [] OTHER -> IF ov THEN JStr(f \o "@file") ELSE JAbsent]

BaseDoc == TokenDoc(JStr("T0"), JStr("R0"), JStr("3"), JAbsent, FALSE, JAbsent)

\* The token files an exchange may find: BaseDoc, and BaseDoc with one or
\* two of its fields changed.
TokenDocs ==
    {[BaseDoc EXCEPT !["access_token"] = j] : j \in {JAbsent, JNull}}
    \cup {[BaseDoc EXCEPT !["refresh_token"] = j] : j \in {JAbsent, JNull, JStr("")}}
    \cup {[BaseDoc EXCEPT !["expiry"] = j] :
            j \in {JStr("3"), JInt(3), JStr("abc"), JAbsent, JNull, JOther}}
    \cup {[BaseDoc EXCEPT !["user"] = j] : j \in {JStr("u@file"), JInt(1)}}
    \cup {[BaseDoc EXCEPT !["refresh_window"] = j] :
            j \in {JStr("0"), JInt(2), JStr("x")}}
    \cup {TokenDoc(JStr("T0"), JStr("R0"), JStr("3"), JStr("u@file"), TRUE, JAbsent),
          TokenDoc(JAbsent, JStr("R0"), JAbsent, JAbsent, FALSE, JAbsent),
          TokenDoc(JStr("T0"), JAbsent, JStr("3"), JStr("u@file"), FALSE, JAbsent)}

InitialFiles == {GarbageFile} \cup {JsonFile(d) : d \in TokenDocs}

\* The token files of the exchanges that are followed step by step.
SessionDocs ==
    {BaseDoc,
     [BaseDoc EXCEPT !["expiry"] = JAbsent],
     [BaseDoc EXCEPT !["refresh_token"] = JAbsent],
     TokenDoc(JStr("T0"), JStr("R0"), JStr("3"), JStr("u@file"), TRUE, JAbsent),
     TokenDoc(JStr("T0"), JAbsent, JStr("3"), JStr("u@file"), FALSE, JAbsent)}

SessionFiles == {GarbageFile} \cup {JsonFile(d) : d \in SessionDocs}

Configs ==
    {[set |-> TRUE, client_id |-> "client_id@conf", client_secret |-> "client_secret@conf",
      token_endpoint |-> "token_endpoint@conf", refresh_window |-> 1,
      log_to_syslog_on_failure |-> TRUE, always_log_to_syslog |-> FALSE,
      log_full_trace_on_failure |-> FALSE]}

RespFields == {"access_token", "expires_in", "refresh_token"}
RespDoc(at, ex, rt) ==
    [f \in RespFields |->
        CASE f = "access_token" -> at [] f = "expires_in" -> ex [] OTHER -> rt]
EmptyResp == RespDoc(JAbsent, JAbsent, JAbsent)
HttpJson(status, doc) ==
    [kind |-> "http", status |-> status, body |-> [kind |-> "json", doc |-> doc]]
HttpGarbage(status) ==
    [kind |-> "http", status |-> status, body |-> [kind |-> "garbage", doc |-> EmptyResp]]
TransportError ==
    [kind |-> "error", status |-> 0, body |-> [kind |-> "garbage", doc |-> EmptyResp]]

\* Answers with which refresh() can succeed.
GoodResponses ==
    {HttpJson(200, RespDoc(JStr("T1"), JInt(2), JAbsent)),
     HttpJson(200, RespDoc(JStr("T1"), JInt(2), JStr("R1"))),
     HttpJson(200, RespDoc(JStr("T1"), JInt(2), JStr("R0"))),
     HttpJson(200, RespDoc(JStr(""), JInt(2), JInt(7))),
     HttpJson(200, RespDoc(JStr("T2"), JStr("1"), JStr(""))),
     HttpJson(200, RespDoc(JStr("T2"), JStr("1"), JAbsent))}

\* Answers with which it cannot.
BadResponses ==
    {TransportError, HttpGarbage(200), HttpGarbage(500),
     HttpJson(204, RespDoc(JStr("T1"), JInt(2), JAbsent)),
     HttpJson(500, RespDoc(JStr("T1"), JInt(2), JAbsent)),
     HttpJson(200, RespDoc(JAbsent, JInt(2), JAbsent)),
     HttpJson(200, RespDoc(JInt(7), JInt(2), JAbsent)),
     HttpJson(200, RespDoc(JStr("T1"), JAbsent, JAbsent)),
     HttpJson(200, RespDoc(JStr("T1"), JStr("x"), JAbsent)),
     HttpJson(200, RespDoc(JStr("T1"), JOther, JAbsent)),
     HttpJson(200, RespDoc(JStr("T1"), JInt(0), JStr("R1"))),
     HttpJson(200, RespDoc(JStr("T1"), JInt(-1), JAbsent))}

\* What happens around one call of refresh(): the endpoint's answer, the
\* seconds the call takes, and what the file system lets write() do.
RefreshEnvs ==
    [net : GoodResponses \cup BadResponses, d : {0}, fs : {"ok"}]
    \cup [net : {HttpJson(200, RespDoc(JStr("T1"), JInt(2), JStr("R1")))},
          d : {0}, fs : FsOutcomes]
    \cup [net : {HttpJson(200, RespDoc(JStr("T1"), JInt(2), JAbsent)), TransportError},
          d : {1}, fs : {"ok"}]

NoEnv == [net |-> TransportError, d |-> 0, fs |-> "ok"]

\* The same, for the exchanges that are followed step by step: a part of
\* RefreshEnvs.
SessionEnvs ==
    [net : {HttpJson(200, RespDoc(JStr("T1"), JInt(2), JStr("R1")))},
     d : {0}, fs : {"ok", "rename_fails"}]
    \cup [net : {TransportError, HttpJson(200, RespDoc(JStr("T1"), JInt(0), JStr("R1")))},
          d : {0}, fs : {"ok"}]
    \cup [net : {HttpJson(200, RespDoc(JStr("T1"), JInt(2), JAbsent))},
          d : {0, 1}, fs : {"ok"}]

\* What the host brings to a first step: the prompt pointer (null or not),
\* the prompt list it points to (none, or entries with their results), what
\* its name and secret callbacks answer, its canon_user hook (absent, or the
\* code it returns) and whether its malloc gives memory.
Prompt(id, result) == [id |-> id, result |-> result]
NullPrompts == [nullptr |-> TRUE, list |-> FALSE, prompts |-> <<>>]
NoPrompts == [nullptr |-> FALSE, list |-> FALSE, prompts |-> <<>>]
Prompts(list) == [nullptr |-> FALSE, list |-> TRUE, prompts |-> list]
BothPrompts ==
    Prompts(<<Prompt(SASL_CB_AUTHNAME, Some("a@b.com")),
              Prompt(SASL_CB_PASS, Some("/a"))>>)
NamelessPrompts ==
    Prompts(<<Prompt(SASL_CB_AUTHNAME, None), Prompt(SASL_CB_PASS, Some("/a"))>>)
WrongPathPrompts ==
    Prompts(<<Prompt(SASL_CB_PASS, Some("/b")),
              Prompt(SASL_CB_AUTHNAME, Some("a@b.com"))>>)
PathlessPrompts ==
    Prompts(<<Prompt(SASL_CB_AUTHNAME, Some("a@b.com")),
              Prompt(SASL_CB_PASS, Some(""))>>)
Host(p, cbAuth, cbPass, canon, malloc) ==
    [nullptr |-> p.nullptr, list |-> p.list, prompts |-> p.prompts,
     cbAuth |-> cbAuth, cbPass |-> cbPass, canon |-> canon, malloc |-> malloc]
HostInputs ==
    {Host(NullPrompts, None, None, "absent", "ok"),
     Host(NullPrompts, Some("cb@b.com"), Some("/a"), "absent", "ok"),
     Host(NoPrompts, None, None, "absent", "ok"),
     Host(NoPrompts, None, None, "absent", "fails"),
     Host(NoPrompts, Some(""), Some("/b"), "absent", "ok"),
     Host(NoPrompts, Some("cb@b.com"), Some("/a"), SASL_NOUSER, "ok"),
     Host(BothPrompts, None, None, "absent", "ok"),
     Host(BothPrompts, None, None, SASL_OK, "ok"),
     Host(BothPrompts, None, None, SASL_NOUSER, "ok"),
     Host(NamelessPrompts, None, None, "absent", "ok"),
     Host(NamelessPrompts, Some("cb@b.com"), Some("/b"), SASL_OK, "ok"),
     Host(WrongPathPrompts, None, None, "absent", "ok"),
     Host(PathlessPrompts, None, None, SASL_OK, "ok"),
     Host(PathlessPrompts, Some("cb@b.com"), Some("/a"), "absent", "ok")}
NoHost == Host(NullPrompts, None, None, "absent", "ok")

\* What the server answers to the XOAUTH2 response: nothing, bytes that are
\* not JSON, or JSON, an object or not, with its "status".
Reply(kind, object, status) == [kind |-> kind, object |-> object, status |-> status]
NoReply == Reply("empty", FALSE, JAbsent)
ServerReplies ==
    {NoReply, Reply("garbage", FALSE, JAbsent), Reply("json", FALSE, JAbsent)}
    \cup {Reply("json", TRUE, j) :
            j \in {JStr("401"), JStr("400"), JStr("535"), JStr("200"), JStr(""),
                   JAbsent, JInt(401), JNull, JBool(TRUE), JOther}}

----------------------------------------------------------------------------
(* The session *)

\* LogMode, as Client::new picks it from the configuration.
LogModeOf(cfg) ==
    IF cfg.always_log_to_syslog THEN "Immediate"
    ELSE IF cfg.log_full_trace_on_failure THEN "FullTraceOnFailure"
    ELSE IF cfg.log_to_syslog_on_failure THEN "OnFailure"
    ELSE "None"

NoClient ==
    [alive |-> FALSE, state |-> "Initial", user |-> "", response |-> "",
     token |-> NoStore, mode |-> "None", flush_on_destroy |-> FALSE]

\* Client::new
ClientNew(cfg) ==
    [alive |-> TRUE, state |-> "Initial", user |-> "", response |-> "",
     token |-> NoStore, mode |-> LogModeOf(cfg), flush_on_destroy |-> FALSE]

\* The configuration files an init may read: the default path and another.
ConfigPaths == {DEFAULT_CONFIG_PATH, "/c"}
ConfigDoc(ci, te, al, rw) ==
    [f \in ConfigFields |->
        CASE f = "client_id" -> ci
          [] f = "token_endpoint" -> te
          [] f = "always_log_to_syslog" -> al
          [] f = "refresh_window" -> rw
          [] OTHER -> JAbsent]
ConfigDocs ==
    {ConfigDoc(JStr("id1"), JStr("endpoint1"), JBool(TRUE), JInt(5)),
     ConfigDoc(JStr("id2"), JAbsent, JAbsent, JAbsent),
     ConfigDoc(JAbsent, JAbsent, JAbsent, JAbsent),
     ConfigDoc(JStr("id1"), JAbsent, JAbsent, JStr("5")),
     ConfigDoc(JNull, JAbsent, JAbsent, JAbsent),
     ConfigDoc(JStr("id1"), JAbsent, JStr("yes"), JAbsent)}
ConfigFileContents == {GarbageFile} \cup {JsonFile(d) : d \in ConfigDocs}

\* What a step hands to the host as (*to_server, *to_server_len).
NullOut == [null |-> TRUE, bytes |-> ""]
Out(bytes) == [null |-> FALSE, bytes |-> bytes]

\* A prompt list is the sequence of its entries before the list-end entry;
\* an entry is its id and its result, None for a null result.
\* read_prompt: the result of the first entry of that id that has one.
read_prompt(prompts, id) ==
    LET hits == {i \in 1..Len(prompts) :
                    /\ prompts[i].id = id
                    /\ prompts[i].result.some
                    /\ Len(prompts[i].result.v) > 0}
    IN  IF hits = {} THEN ""
        ELSE prompts[CHOOSE i \in hits : \A j \in hits : i <= j].result.v

\* A request that asks for the name and the secret, missing or not.
request_prompts_both(malloc, need_auth_name, need_password) ==
    IF ~need_auth_name /\ ~need_password
    THEN [rc |-> SASL_BADPARAM, prompts |-> <<>>]
    ELSE IF malloc # "ok" THEN [rc |-> SASL_NOMEM, prompts |-> <<>>]
    ELSE [rc |-> SASL_INTERACT,
          prompts |-> <<SASL_CB_AUTHNAME, SASL_CB_PASS, SASL_CB_LIST_END>>]

\* request_prompts: the list handed back to the host, ended by the sentinel.
request_prompts(malloc, need_auth_name, need_password) ==
    IF ~need_auth_name /\ ~need_password
    THEN [rc |-> SASL_BADPARAM, prompts |-> <<>>]
    ELSE IF malloc # "ok" THEN [rc |-> SASL_NOMEM, prompts |-> <<>>]
    ELSE [rc |-> SASL_INTERACT,
          prompts |-> (IF need_auth_name THEN <<SASL_CB_AUTHNAME>> ELSE <<>>)
                      \o (IF need_password THEN <<SASL_CB_PASS>> ELSE <<>>)
                      \o <<SASL_CB_LIST_END>>]

\* A response that ends with one separator.
XOAuth2ResponseShort(user, token) ==
    "user=" \o user \o SOH \o "auth=Bearer " \o token \o SOH

\* The XOAUTH2 response: user=<user>^Aauth=Bearer <token>^A^A
XOAuth2Response(user, token) ==
    "user=" \o user \o SOH \o "auth=Bearer " \o token \o SOH \o SOH

\* A send_token that builds its response before it looks at the store's
\* answer.
TokenAnswerEarly(c, g) ==
    IF ~g.ok
    THEN [client |-> [c EXCEPT !.token = g.store,
                               !.response = XOAuth2Response(c.user, g.token)],
          files |-> g.files, rc |-> g.rc, out |-> NullOut,
          refreshes |-> g.refreshes, net |-> g.net, req |-> g.req,
          now |-> g.now]
    ELSE [client |-> [c EXCEPT !.token = g.store,
                               !.response = XOAuth2Response(c.user, g.token)],
          files |-> g.files, rc |-> SASL_OK,
          out |-> Out(XOAuth2Response(c.user, g.token)),
          refreshes |-> g.refreshes, net |-> g.net, req |-> g.req,
          now |-> g.now]

\* send_token once the store has answered: its error, or the response
\* built, kept in the session and handed to the host.
TokenAnswer(c, g) ==
    IF ~g.ok
    THEN [client |-> [c EXCEPT !.token = g.store], files |-> g.files,
          rc |-> g.rc, out |-> NullOut, refreshes |-> g.refreshes,
          net |-> g.net, req |-> g.req, now |-> g.now]
    ELSE [client |-> [c EXCEPT !.token = g.store,
                               !.response = XOAuth2Response(c.user, g.token)],
          files |-> g.files, rc |-> SASL_OK,
          out |-> Out(XOAuth2Response(c.user, g.token)),
          refreshes |-> g.refreshes, net |-> g.net, req |-> g.req,
          now |-> g.now]

\* Client::send_token
SendToken(c, fs, t, cfg, e) ==
    IF ~c.token.present
    THEN [client |-> c, files |-> fs, rc |-> SASL_FAIL, out |-> NullOut,
          refreshes |-> 0, net |-> 0, req |-> NoRequest, now |-> t]
    ELSE TokenAnswer(c, GetAccessToken(c.token, fs, t, cfg, e))

\* The identity that initial_step settles on: the token file's user, else
\* the name the host gave.
SessionUser(name, st) ==
    IF StoreUser(st).some THEN StoreUser(st).v ELSE name

\* A step that ends early and leaves the session's response with the host.
StepStopsWithResponse(cl, fs, t, rc, prompts) ==
    [client |-> cl, files |-> fs, rc |-> rc,
     out |-> IF cl.response = "" THEN NullOut ELSE Out(cl.response),
     prompts |-> prompts, refreshes |-> 0, net |-> 0, stores |-> 0,
     loads |-> 0, canon |-> None, req |-> NoRequest, now |-> t]

\* A step that ends before any token endpoint call.
StepStops(cl, fs, t, rc, prompts) ==
    [client |-> cl, files |-> fs, rc |-> rc, out |-> NullOut,
     prompts |-> prompts, refreshes |-> 0, net |-> 0, stores |-> 0,
     loads |-> 0, canon |-> None, req |-> NoRequest, now |-> t]

\* An end of initial_step that moves to TokenSent whatever send_token
\* returned.
TokenSentAnyway(r) ==
    [client |-> [r.client EXCEPT !.state = "TokenSent"],
     files |-> r.files, rc |-> r.rc, out |-> r.out, prompts |-> <<>>,
     refreshes |-> r.refreshes, net |-> r.net, stores |-> 1, loads |-> 1,
     canon |-> None, req |-> r.req, now |-> r.now]

\* The end of initial_step: the error of send_token, or the move to
\* TokenSent.
TokenSent(r) ==
    [client |-> IF r.rc # SASL_OK THEN r.client
                ELSE [r.client EXCEPT !.state = "TokenSent"],
     files |-> r.files, rc |-> r.rc, out |-> r.out, prompts |-> <<>>,
     refreshes |-> r.refreshes, net |-> r.net, stores |-> 1, loads |-> 1,
     canon |-> None, req |-> r.req, now |-> r.now]

\* An initial_step that sends the token of the store it built and does not
\* keep the store.
OpenStoreNotKept(c, fs, t, cfg, name, st, e) ==
    IF ~st.present
    THEN [StepStops([c EXCEPT !.user = name], fs, t, SASL_FAIL, <<>>)
            EXCEPT !.loads = 1]
    ELSE [TokenSent(SendToken([c EXCEPT !.user = SessionUser(name, st),
                                        !.token = st],
                              fs, t, cfg, e))
            EXCEPT !.client.token = NoStore]

\* initial_step once the name and the path are settled and canon_user has
\* passed: the store is built from the path and the token is sent.
OpenStore(c, fs, t, cfg, name, st, e) ==
    IF ~st.present
    THEN [StepStops([c EXCEPT !.user = name], fs, t, SASL_FAIL, <<>>)
            EXCEPT !.loads = 1]
    ELSE TokenSent(SendToken([c EXCEPT !.user = SessionUser(name, st),
                                       !.token = st],
                             fs, t, cfg, e))

\* The interaction that initial_step asks for.
Interact(c, fs, t, q) == StepStops(c, fs, t, q.rc, q.prompts)

\* Whether the host handed a prompt list in.
has_prompts(h) == ~h.nullptr /\ h.list

\* The name initial_step settles on: that of the prompt list, else that of
\* the host's callback.
auth_name(h) ==
    LET prompted == IF has_prompts(h) THEN read_prompt(h.prompts, SASL_CB_AUTHNAME)
                    ELSE ""
    IN  IF prompted = "" /\ h.cbAuth.some THEN h.cbAuth.v ELSE prompted

\* The path of the token file, which the host gives as the password.
password(h) ==
    LET prompted == IF has_prompts(h) THEN read_prompt(h.prompts, SASL_CB_PASS)
                    ELSE ""
    IN  IF prompted = "" /\ h.cbPass.some THEN h.cbPass.v ELSE prompted

\* An initial_step that opens the store and sends the token before it looks
\* at what canon_user returned.
CanonicalizeAfterStore(c, fs, t, cfg, h, e) ==
    IF h.canon = "absent"
    THEN OpenStore(c, fs, t, cfg, auth_name(h), TokenStoreNew(fs, password(h)), e)
    ELSE [OpenStore(c, fs, t, cfg, auth_name(h), TokenStoreNew(fs, password(h)), e)
            EXCEPT !.canon = Some(auth_name(h)),
                   !.rc = IF h.canon # SASL_OK THEN h.canon ELSE @]

\* What is left of initial_step once it asks for no prompts: canon_user, if
\* the host has one, is called on the name, and only when it passes does the
\* step go on to the token file.  canon is the name the hook was called on.
Canonicalize(c, fs, t, cfg, h, e) ==
    IF h.canon = "absent"
    THEN OpenStore(c, fs, t, cfg, auth_name(h), TokenStoreNew(fs, password(h)), e)
    ELSE IF h.canon # SASL_OK
    THEN [StepStops(c, fs, t, h.canon, <<>>) EXCEPT !.canon = Some(auth_name(h))]
    ELSE [OpenStore(c, fs, t, cfg, auth_name(h), TokenStoreNew(fs, password(h)), e)
            EXCEPT !.canon = Some(auth_name(h))]

\* Client::initial_step.  h is what the host supplies: the prompt pointer
\* and list, the callbacks' answers, the canon_user hook and malloc.
\* stores counts the TokenStores constructed, loads the calls of
\* TokenStore::new.
InitialStep(c, fs, t, cfg, h, e) ==
    IF ~h.nullptr /\ (auth_name(h) = "" \/ password(h) = "")
    THEN Interact(c, fs, t,
                  request_prompts(h.malloc, auth_name(h) = "", password(h) = ""))
    ELSE Canonicalize(c, fs, t, cfg, h, e)

\* A reading that takes bytes it cannot parse for a status of their own.
ServerStatusUnparsed(srv) ==
    IF srv.kind = "json" /\ srv.object THEN AsStr(srv.status) ELSE Some("unparsable")

\* A reading that takes a number for its decimal text.
ServerStatusOfNumber(srv) ==
    IF srv.kind = "json" /\ srv.object
    THEN IF srv.status.t = "int" THEN Some(ToString(srv.status.n))
         ELSE AsStr(srv.status)
    ELSE None

\* The status that token_sent_step reads in the server's bytes: that of a
\* JSON object whose "status" is a string.
ServerStatus(srv) ==
    IF srv.kind = "json" /\ srv.object THEN AsStr(srv.status) ELSE None

\* A test that knows "401" alone.
IsRejectionOnly401(status) == status = "401"

\* A test that takes every SMTP failure for a rejection of the token.
IsRejectionAnyFailure(status) == status \in {"400", "401", "535"}

\* The statuses that reject the token.
IsRejection(status) == status = "400" \/ status = "401"

\* A retry that gives the store its attempts back when the refresh succeeds.
RetryResetsCounter(c, r) ==
    [client |-> [c EXCEPT !.token =
                    IF r.rc = SASL_OK THEN [r.store EXCEPT !.refresh_attempts = 0]
                    ELSE r.store],
     files |-> r.files,
     rc |-> IF r.rc # SASL_OK THEN r.rc ELSE SASL_TRYAGAIN,
     out |-> NullOut, prompts |-> <<>>, refreshes |-> 1,
     net |-> r.net, stores |-> 0, loads |-> 0, canon |-> None, req |-> r.req,
     now |-> r.now]

\* A retry that starts the exchange over when the refresh fails.
RetryStartsOver(c, r) ==
    [client |-> [c EXCEPT !.token = r.store,
                          !.state = IF r.rc # SASL_OK THEN "Initial" ELSE @],
     files |-> r.files,
     rc |-> IF r.rc # SASL_OK THEN r.rc ELSE SASL_TRYAGAIN,
     out |-> NullOut, prompts |-> <<>>, refreshes |-> 1,
     net |-> r.net, stores |-> 0, loads |-> 0, canon |-> None, req |-> r.req,
     now |-> r.now]

\* token_sent_step after the refresh that a rejection forces: the error of
\* the refresh, or try again.
Retry(c, r) ==
    [client |-> [c EXCEPT !.token = r.store], files |-> r.files,
     rc |-> IF r.rc # SASL_OK THEN r.rc ELSE SASL_TRYAGAIN,
     out |-> NullOut, prompts |-> <<>>, refreshes |-> 1,
     net |-> r.net, stores |-> 0, loads |-> 0, canon |-> None, req |-> r.req,
     now |-> r.now]

\* token_sent_step on a status string.
OnStatus(c, fs, t, cfg, status, e) ==
    IF IsRejection(status) /\ c.token.present
    THEN Retry(c, Refresh(c.token, fs, t, cfg, e))
    ELSE IF status # "" THEN StepStops(c, fs, t, SASL_BADPROT, <<>>)
    ELSE StepStops(c, fs, t, SASL_OK, <<>>)

\* Client::token_sent_step
TokenSentStep(c, fs, t, cfg, srv, e) ==
    IF srv.kind = "empty" THEN StepStops(c, fs, t, SASL_OK, <<>>)
    ELSE IF ~ServerStatus(srv).some THEN StepStops(c, fs, t, SASL_OK, <<>>)
    ELSE OnStatus(c, fs, t, cfg, ServerStatus(srv).v, e)

\* A do_step whose success takes the mark back.
MarkFlushOfLastStep(r) ==
    [r EXCEPT !.client.flush_on_destroy =
                (r.rc # SASL_OK /\ r.rc # SASL_INTERACT)]

\* The end of do_step: a result other than success and interaction marks
\* the log for flushing.
MarkFlush(r) ==
    IF r.rc # SASL_OK /\ r.rc # SASL_INTERACT
    THEN [r EXCEPT !.client.flush_on_destroy = TRUE]
    ELSE r

\* Drop for the session's Log, of which the session keeps the mode and the
\* mark: the calls of flush().
DropFlushes(c) ==
    LogDrop([LogNew(c.mode) EXCEPT !.flush_on_destroy = c.flush_on_destroy]).flushes

\* Client::do_step
DoStep(c, fs, t, cfg, h, srv, e) ==
    MarkFlush(IF c.state = "Initial" THEN InitialStep(c, fs, t, cfg, h, e)
              ELSE TokenSentStep(c, fs, t, cfg, srv, e))

----------------------------------------------------------------------------
(* Observations *)

\* net and stores count the endpoint calls and the stores built; failed
\* tells that a step of the session returned a code other than SASL_OK and
\* SASL_INTERACT, recovered that a later step returned SASL_OK, and tryagain
\* counts the steps that returned SASL_TRYAGAIN.  Of a Log,
\* written is the messages given to write(), flushes the calls of flush().
\* handed outlives the session: it is what the last step that returned
\* SASL_TRYAGAIN left for the exchanges to come, the session it was a step
\* of, the identity of that session, the path of its store, the access
\* token the endpoint gave and the token file as write() left it; it lapses
\* when a later step writes that file again.
NoHandOver ==
    [some |-> FALSE, session |-> 0, user |-> "", path |-> "", access |-> "",
     file |-> GarbageFile]
HandOver(session, cl, e, fs) ==
    [some |-> TRUE, session |-> session, user |-> cl.user, path |-> cl.token.path,
     access |-> AsStr(e.net.body.doc["access_token"]).v,
     file |-> fs[cl.token.path]]
Lapses(h, fs) == h.some /\ (h.path \notin DOMAIN fs \/ fs[h.path] # h.file)
NoTally ==
    [net |-> 0, stores |-> 0, sessions |-> 0, failed |-> FALSE,
     recovered |-> FALSE, tryagain |-> 0, written |-> <<>>, flushes |-> 0,
     handed |-> NoHandOver]

Idle ==
    [op |-> "none", at |-> 0, pre |-> NoStore, preFiles |-> <<>>, inp |-> NoEnv,
     rc |-> SASL_OK, ok |-> TRUE, ret |-> "", refreshes |-> 0, net |-> 0,
     req |-> NoRequest, flushes |-> 0]

\* The stores that write the token file /a at the same time, each for its
\* own session; none of them is inside write() yet.
Writers == {"w1", "w2"}
NoWriter ==
    [pc |-> "idle", temp_path |-> "", fd |-> "closed", next |-> 0,
     rc |-> SASL_OK, store |-> NoStore]
NoWriters == [w \in Writers |-> NoWriter]

----------------------------------------------------------------------------
(* The initial state: a configured process, a token file, no store, no session *)

Init ==
    /\ now = 0
    /\ \E c \in SessionFiles : files = ("/a" :> c)
    /\ config \in Configs
    /\ store = NoStore
    /\ client = NoClient
    /\ tally = NoTally
    /\ last = Idle
    /\ log = NoLog
    /\ syslog = <<>>
    /\ writers = NoWriters

StoreInit ==
    /\ now = 0
    /\ \E c \in InitialFiles : files = ("/a" :> c)
    /\ config \in Configs
    /\ store = NoStore
    /\ client = NoClient
    /\ tally = NoTally
    /\ last = Idle
    /\ log = NoLog
    /\ syslog = <<>>
    /\ writers = NoWriters

\* Time passes.
Tick ==
    /\ last.op = "none"
    /\ now < MaxNow
    /\ now' = now + 1
    /\ UNCHANGED <<files, config, store, client, tally, last, log, syslog, writers>>

\* The caller takes what the last operation returned, and goes on; a
\* process that has stopped does not.
Resume ==
    /\ last.op # "none"
    /\ last.op # "crash"
    /\ last' = Idle
    /\ UNCHANGED <<now, files, config, store, client, tally, log, syslog, writers>>

----------------------------------------------------------------------------
(* A TokenStore driven through its public operations *)

\* TokenStore::new(path)
StoreNewCall ==
    /\ last.op = "none"
    /\ ~store.present
    /\ \E p \in Paths :
        /\ store' = TokenStoreNew(files, p)
        /\ tally' = [NoTally EXCEPT !.stores = 1]
        /\ last' = [Idle EXCEPT !.op = "new", !.at = now, !.preFiles = files,
                                !.ok = store'.present, !.ret = p]
    /\ UNCHANGED <<now, files, config, client, log, syslog, writers>>

\* The effect of a call on the store, and what is seen of it.
StoreReturns(op, r, ok, ret, refreshes) ==
    /\ r.now <= MaxNow
    /\ store' = r.store
    /\ files' = r.files
    /\ now' = r.now
    /\ tally' = [tally EXCEPT !.net = @ + r.net]
    /\ last' = [op |-> op, at |-> now, pre |-> store, preFiles |-> files,
                inp |-> r.inp, rc |-> r.rc, ok |-> ok, ret |-> ret,
                refreshes |-> refreshes, net |-> r.net, req |-> r.req]
    /\ UNCHANGED <<config, client, log, syslog, writers>>

\* The result of a call with what the environment did in it: e when the
\* token endpoint was called, else nothing.
WithEnv(r, e) ==
    [store |-> r.store, files |-> r.files, now |-> r.now, rc |-> r.rc,
     net |-> r.net, req |-> r.req, inp |-> IF r.net = 1 THEN e ELSE NoEnv]

GetReturns(g, e) ==
    StoreReturns("get_access_token", WithEnv(g, e), g.ok, g.token, g.refreshes)

RefreshReturns(r, e) ==
    StoreReturns("refresh", WithEnv(r, e), r.rc = SASL_OK, "", 1)

\* store.get_access_token()
StoreGetAccessTokenCall ==
    /\ last.op = "none"
    /\ store.present
    /\ \E e \in RefreshEnvs :
        GetReturns(GetAccessToken(store, files, now, config, e), e)

\* store.refresh()
StoreRefreshCall ==
    /\ last.op = "none"
    /\ store.present
    /\ \E e \in RefreshEnvs :
        RefreshReturns(Refresh(store, files, now, config, e), e)

\* The process stops at point at of the write() that ends the refresh r;
\* store is then the store as it was in memory at that point.
StoreStops(r, e, at) ==
    /\ e.fs = "ok"
    /\ r.rc = SASL_OK
    /\ r.now <= MaxNow
    /\ store' = r.store
    /\ files' = WriteStops(r.store, files, r.now, at)
    /\ now' = r.now
    /\ tally' = [tally EXCEPT !.net = @ + r.net]
    /\ last' = [op |-> "crash", at |-> now, pre |-> store, preFiles |-> files,
                inp |-> e, rc |-> "stopped", ok |-> FALSE, ret |-> at,
                refreshes |-> 1, net |-> r.net, req |-> r.req]
    /\ UNCHANGED <<config, client, log, syslog, writers>>

\* store.refresh(), the process stopping inside its write()
StoreRefreshCrash ==
    /\ last.op = "none"
    /\ store.present
    /\ \E e \in RefreshEnvs, at \in CrashPoints :
        StoreStops(Refresh(store, files, now, config, e), e, at)

----------------------------------------------------------------------------
(* Stores of several sessions inside write() at the same time *)

\* The processes that the writers of the token file /a may run in.
Pids == {Pid, "pid2"}

\* write_all hands the text to the file in this many writes.
LastChunk == 2

\* A file as the writes have made it so far: the chunks it holds, each a
\* part of the text of some record, or a hole left by a write past its end.
Bytes(chunks) == [kind |-> "bytes", doc |-> EmptyDoc, chunks |-> chunks]
Chunk(doc, part) == [of |-> doc, part |-> part]
Hole == Chunk(EmptyDoc, 0)

\* A write of chunk c at position k of a file that holds chunks.
WriteAt(chunks, k, c) ==
    [i \in 1..(IF Len(chunks) > k THEN Len(chunks) ELSE k) |->
        IF i = k THEN c ELSE IF i <= Len(chunks) THEN chunks[i] ELSE Hole]

\* What a reader finds in a file: the record, when the chunks are the whole
\* text of one record in order, and else bytes that do not parse.
ReadBack(f) ==
    IF f.kind # "bytes" THEN f
    ELSE IF /\ Len(f.chunks) = LastChunk
            /\ \A i \in 1..LastChunk : f.chunks[i] = Chunk(f.chunks[1].of, i)
    THEN JsonFile(f.chunks[1].of)
    ELSE PartialFile

\* The store of writer w as its refresh has left it, about to call write():
\* loaded from the token file, with the access token the endpoint gave it.
WriterStore(w, fs, t) ==
    Refreshed([TokenStoreNew(fs, "/a") EXCEPT !.refresh_attempts = 1],
              RespDoc(JStr("T@" \o w), JInt(2), JAbsent), "T@" \o w, 2, t)

RaceStart ==
    /\ now = 0
    /\ files = ("/a" :> JsonFile(BaseDoc))
    /\ config \in Configs
    /\ store = NoStore
    /\ client = NoClient
    /\ tally = NoTally
    /\ last = Idle
    /\ log = NoLog
    /\ syslog = <<>>
    /\ writers = NoWriters

\* The open files follow their file through a rename: a file that was at
\* from is at to, and the one that was at to has no name any more.
FollowRename(ws, from, to) ==
    [v \in Writers |->
        [ws[v] EXCEPT !.fd = IF @ = from THEN to
                             ELSE IF @ = to THEN "unlinked" ELSE @]]

\* write() of writer w reads the clock and the process id for the name of
\* its temporary file.
RaceBegin(w) ==
    /\ writers[w].pc = "idle"
    /\ TokenStoreNew(files, "/a").present
    /\ \E pid \in Pids, millis \in {now * 1000, now * 1000 + 1} :
        writers' = [writers EXCEPT ![w] =
                        [@ EXCEPT !.pc = "create",
                                  !.temp_path = TempName("/a", pid, millis),
                                  !.store = WriterStore(w, files, now)]]
    /\ UNCHANGED <<now, files, config, store, client, tally, last, log, syslog>>

\* fs::File::create(&temp_path): the file is made, or emptied if it is there.
RaceCreate(w) ==
    /\ writers[w].pc = "create"
    /\ files' = (writers[w].temp_path :> Bytes(<<>>)) @@ files
    /\ writers' = [writers EXCEPT ![w] =
                    [@ EXCEPT !.pc = "write", !.fd = writers[w].temp_path,
                              !.next = 1]]
    /\ UNCHANGED <<now, config, store, client, tally, last, log, syslog>>

\* One write of f.write_all(json.as_bytes()), at the position this writer
\* has reached in the file it opened; after the last one the file is closed.
RaceWrite(w) ==
    /\ writers[w].pc = "write"
    /\ files' = IF writers[w].fd \in DOMAIN files
                THEN [files EXCEPT ![writers[w].fd] =
                        Bytes(WriteAt(@.chunks, writers[w].next,
                                      Chunk(SerializeTokenFile(writers[w].store.token),
                                            writers[w].next)))]
                ELSE files
    /\ writers' = [writers EXCEPT ![w] =
                    IF writers[w].next = LastChunk
                    THEN [@ EXCEPT !.pc = "rename", !.fd = "closed"]
                    ELSE [@ EXCEPT !.next = @ + 1]]
    /\ UNCHANGED <<now, config, store, client, tally, last, log, syslog>>

\* fs::rename(&temp_path, &self.path), which fails when the temporary file
\* is not there any more.
RaceRename(w) ==
    /\ writers[w].pc = "rename"
    /\ IF writers[w].temp_path \in DOMAIN files
       THEN /\ files' = Rename(files, writers[w].temp_path, "/a")
            /\ writers' = [FollowRename(writers, writers[w].temp_path, "/a")
                            EXCEPT ![w] = [@ EXCEPT !.pc = "done", !.rc = SASL_OK]]
       ELSE /\ files' = files
            /\ writers' = [writers EXCEPT ![w] =
                            [@ EXCEPT !.pc = "done", !.rc = SASL_FAIL]]
    /\ UNCHANGED <<now, config, store, client, tally, last, log, syslog>>

RaceNext ==
    \/ \E w \in Writers : RaceBegin(w)
    \/ \E w \in Writers : RaceCreate(w)
    \/ \E w \in Writers : RaceWrite(w)
    \/ \E w \in Writers : RaceRename(w)

RaceSpec == RaceStart /\ [][RaceNext]_vars

----------------------------------------------------------------------------
(* The configuration, initialised by the process *)

ConfigStart ==
    /\ now = 0
    /\ \E D \in SUBSET ConfigPaths : files \in [D -> ConfigFileContents]
    /\ config = NoConfig
    /\ store = NoStore
    /\ client = NoClient
    /\ tally = NoTally
    /\ last = Idle
    /\ log = NoLog
    /\ syslog = <<>>
    /\ writers = NoWriters

\* The effect of an init on the static CONFIG, and what is seen of it.
InitReturns(r, p) ==
    /\ config' = r.config
    /\ last' = [Idle EXCEPT !.op = "init", !.at = now, !.pre = config,
                            !.preFiles = files, !.rc = r.rc,
                            !.ok = (r.rc = SASL_OK), !.ret = p]
    /\ UNCHANGED <<now, files, store, client, tally, log, syslog, writers>>

\* Config::init_from_path(path); Config::init() is the call on the default
\* path.
ConfigInitCall ==
    /\ last.op = "none"
    /\ \E p \in ConfigPaths : InitReturns(init_from_path(config, files, p), p)

ConfigNext ==
    \/ ConfigInitCall
    \/ Resume

ConfigSpec == ConfigStart /\ [][ConfigNext]_vars

----------------------------------------------------------------------------
(* A Log driven through its public operations *)

\* Messages of the plugin.
LogMessages ==
    {"Client: created", "TokenStore::refresh: invalid expiry", FromServerNul}

LogStart ==
    /\ now = 0
    /\ files = <<>>
    /\ config \in Configs
    /\ store = NoStore
    /\ client = NoClient
    /\ tally = NoTally
    /\ last = Idle
    /\ log = NoLog
    /\ syslog = <<>>
    /\ writers = NoWriters

\* The effect of a call on the Log and on syslog, and what is seen of it.
LogReturns(op, l, emitted, msg) ==
    /\ log' = l
    /\ syslog' = syslog \o emitted
    /\ last' = [Idle EXCEPT !.op = op, !.at = Len(syslog), !.pre = log,
                            !.ret = msg]
    /\ UNCHANGED <<now, files, config, store, client, writers>>

\* Log::new(mode)
LogNewCall ==
    /\ last.op = "none"
    /\ ~log.alive
    /\ ~log.dropped
    /\ \E mode \in LogModes : LogReturns("log_new", LogNew(mode), <<>>, "")
    /\ UNCHANGED tally

\* log.write(msg)
LogWriteCall ==
    /\ last.op = "none"
    /\ log.alive
    /\ Len(tally.written) < MaxLines
    /\ \E msg \in LogMessages :
        /\ LogReturns("write", LogWrite(log, msg).log, LogWrite(log, msg).emitted, msg)
        /\ tally' = [tally EXCEPT !.written = Append(@, msg)]

\* log.set_flush_on_destroy()
LogSetFlushOnDestroyCall ==
    /\ last.op = "none"
    /\ log.alive
    /\ ~log.flush_on_destroy
    /\ LogReturns("set_flush_on_destroy", set_flush_on_destroy(log), <<>>, "")
    /\ UNCHANGED tally

\* log.flush()
LogFlushCall ==
    /\ last.op = "none"
    /\ log.alive
    /\ tally.flushes < MaxFlushes
    /\ LogReturns("flush", log, LogFlush(log), "")
    /\ tally' = [tally EXCEPT !.flushes = @ + 1]

\* drop(log)
LogDropCall ==
    /\ last.op = "none"
    /\ log.alive
    /\ LogReturns("drop", [log EXCEPT !.alive = FALSE, !.dropped = TRUE],
                  LogDrop(log).emitted, "")
    /\ tally' = [tally EXCEPT !.flushes = @ + LogDrop(log).flushes]

LogNext ==
    \/ LogNewCall
    \/ LogWriteCall
    \/ LogSetFlushOnDestroyCall
    \/ LogFlushCall
    \/ LogDropCall
    \/ Resume

LogSpec == LogStart /\ [][LogNext]_vars

----------------------------------------------------------------------------
(* A session driven by the host *)

\* mech_new
MechNew ==
    /\ last.op = "none"
    /\ ~client.alive
    /\ tally.sessions < MaxSessions
    /\ client' = ClientNew(config)
    /\ tally' = [NoTally EXCEPT !.sessions = tally.sessions + 1,
                                !.handed = tally.handed]
    /\ UNCHANGED <<now, files, config, store, last, log, syslog, writers>>

\* The effect of a step on the session, and what is seen of it; handed is
\* what is left for the exchanges to come.
StepObserved(r, h, srv, e, handed) ==
    /\ (client.state # "Initial" \/ srv = NoReply)
    /\ (client.state = "Initial" \/ h = NoHost)
    /\ (r.net # 0 \/ e = NoEnv)
    /\ r.now <= MaxNow
    /\ client' = r.client
    /\ files' = r.files
    /\ now' = r.now
    /\ tally' = [tally EXCEPT
                    !.net = @ + r.net,
                    !.stores = @ + r.stores,
                    !.failed = @ \/ (r.rc # SASL_OK /\ r.rc # SASL_INTERACT),
                    !.recovered = @ \/ (tally.failed /\ r.rc = SASL_OK),
                    !.tryagain = @ + (IF r.rc = SASL_TRYAGAIN THEN 1 ELSE 0),
                    !.handed = handed]
    /\ last' = [op |-> "step", at |-> now, pre |-> client, preFiles |-> files,
                h |-> h, srv |-> srv, inp |-> e, rc |-> r.rc, out |-> r.out,
                prompts |-> r.prompts, refreshes |-> r.refreshes,
                net |-> r.net, stores |-> r.stores, loads |-> r.loads,
                canon |-> r.canon, req |-> r.req, handed |-> tally.handed]
    /\ UNCHANGED <<config, store, log, syslog, writers>>

\* A step of an exchange that is followed by itself.
StepReturns(r, h, srv, e) == StepObserved(r, h, srv, e, tally.handed)

\* A step of an exchange that is followed into the next: a step that
\* returns SASL_TRYAGAIN leaves its hand-over, and a step that writes the
\* token file again ends the one it found.
StepHandsOver(r, h, srv, e) ==
    StepObserved(r, h, srv, e,
                 IF r.rc = SASL_TRYAGAIN
                 THEN HandOver(tally.sessions, r.client, e, r.files)
                 ELSE IF Lapses(tally.handed, r.files) THEN NoHandOver
                 ELSE tally.handed)

\* mech_step
MechStep ==
    /\ last.op = "none"
    /\ client.alive
    /\ (client.state # "Initial" \/ tally.stores < MaxStores)
    /\ \E h \in HostInputs, srv \in ServerReplies, e \in SessionEnvs :
        StepReturns(DoStep(client, files, now, config, h, srv, e), h, srv, e)

\* mech_step of a host that has the name and the path, against a server that
\* accepts the token or rejects it, with every answer of the token endpoint
\* and every failure of the file system.
MechStepAnyRefresh ==
    /\ last.op = "none"
    /\ client.alive
    /\ (client.state # "Initial" \/ tally.stores < MaxStores)
    /\ \E h \in {NoHost, Host(BothPrompts, None, None, "absent", "ok")},
          srv \in {NoReply, Reply("json", TRUE, JStr("401"))},
          e \in RefreshEnvs :
        StepReturns(DoStep(client, files, now, config, h, srv, e), h, srv, e)

\* mech_dispose: the session is dropped, and its log with it.  flushes
\* counts the calls of Log::flush.
MechDispose ==
    /\ last.op = "none"
    /\ client.alive
    /\ client' = NoClient
    /\ last' = [Idle EXCEPT !.op = "dispose", !.at = now, !.pre = client,
                            !.flushes = DropFlushes(client)]
    /\ UNCHANGED <<now, files, config, store, tally, log, syslog, writers>>

Next ==
    \/ Tick
    \/ Resume
    \/ MechNew
    \/ MechStep
    \/ MechDispose

Spec == Init /\ [][Next]_vars

\* mech_step of hosts that have the name and the path or lack the path,
\* against a server that accepts the token, rejects it or answers a number.
MechStepHandOver ==
    /\ last.op = "none"
    /\ client.alive
    /\ (client.state # "Initial" \/ tally.stores < MaxStores)
    /\ \E h \in {NoHost, Host(BothPrompts, None, None, "absent", "ok"),
                  Host(NullPrompts, Some("cb@b.com"), Some("/a"), SASL_OK, "ok"),
                  Host(NoPrompts, Some("cb@b.com"), Some("/a"), SASL_NOUSER, "ok"),
                  Host(PathlessPrompts, None, None, SASL_OK, "ok")},
          srv \in {NoReply, Reply("json", TRUE, JStr("401")),
                   Reply("json", TRUE, JInt(401))},
          e \in SessionEnvs :
        StepHandsOver(DoStep(client, files, now, config, h, srv, e), h, srv, e)

HandOverNext ==
    \/ Tick
    \/ Resume
    \/ MechNew
    \/ MechStepHandOver
    \/ MechDispose

HandOverSpec == Init /\ [][HandOverNext]_vars

\* The first session of the process.
MechNewFirst == tally.sessions = 0 /\ MechNew

FailureNext ==
    \/ Tick
    \/ Resume
    \/ MechNewFirst
    \/ MechStepAnyRefresh
    \/ MechDispose

FailureSpec == Init /\ [][FailureNext]_vars

StoreNext ==
    \/ Tick
    \/ Resume
    \/ StoreNewCall
    \/ StoreGetAccessTokenCall
    \/ StoreRefreshCall
    \/ StoreRefreshCrash

StoreSpec == StoreInit /\ [][StoreNext]_vars

----------------------------------------------------------------------------
(* Properties of the TokenStore, stated of StoreSpec *)

\* The last operation was a call of refresh() or of get_access_token().
StoreCalled == last.op \in {"refresh", "get_access_token"}

\* The last operation called the token endpoint and refresh() returned Ok.
RefreshSucceeded == StoreCalled /\ last.net = 1 /\ last.rc = SASL_OK

\* The fields of the response that the last refresh received.
ResponseField(f) == last.inp.net.body.doc[f]

\* C1: once the attempt counter has reached 2, refresh() calls nothing and
\* returns an error at once, leaving the store and the files as they were;
\* the counter stays within 0..2 and a store calls the token endpoint at most
\* twice in its life.
C1_RefreshCeiling ==
    /\ store.refresh_attempts \in 0..2
    /\ tally.net <= 2
    /\ tally.net <= store.refresh_attempts
    /\ (StoreCalled /\ last.refreshes = 1 /\ last.pre.refresh_attempts >= 2)
        => /\ last.net = 0
           /\ last.rc = SASL_BADPROT
           /\ ~last.ok
           /\ store = last.pre
           /\ files = last.preFiles
           /\ now = last.at

\* A third refresh() has been called on a store that had called the token
\* endpoint twice.
C1_Witness ==
    /\ last.op = "refresh"
    /\ last.pre.refresh_attempts = 2
    /\ tally.net = 2
    /\ last.rc = SASL_BADPROT

\* The token was due at the call: now + refresh_window >= expiry, the window
\* being the token file's own when it parses, else the configuration's.
WasDue ==
    LET own == last.pre.token.refresh_window
        window == IF own.some /\ own.v \in I64Texts THEN I64Value[own.v]
                  ELSE config.refresh_window
    IN  last.at + window >= last.pre.expiry

\* The expiry field of the file that a store was just loaded from is absent,
\* null or a text that is no integer.
ExpiryUnreadable ==
    LET j == last.preFiles[last.ret].doc["expiry"]
    IN  \/ j.t \in {"absent", "null"}
        \/ j.t = "str" /\ j.s \notin I64Texts

\* C3: a get_access_token() on a store whose token is due (now +
\* refresh_window >= expiry) calls refresh() exactly once, and the access
\* token it returns is the one that refresh received; a store loaded from a
\* file whose expiry is absent or unparsable has expiry 0.
C3_DueTokenIsRefreshedOnce ==
    /\ (last.op = "get_access_token" /\ WasDue)
        => /\ last.refreshes = 1
           /\ last.net <= 1
           /\ last.ok = (last.rc = SASL_OK)
           /\ last.ok
                => /\ last.net = 1
                   /\ ResponseField("access_token").t = "str"
                   /\ last.ret = ResponseField("access_token").s
                   /\ last.ret = store.token.access_token
    /\ (last.op = "new" /\ last.ok /\ ExpiryUnreadable) => store.expiry = 0

\* A token was refreshed at the very second it became due, and the new one
\* returned.
C3_Witness ==
    /\ last.op = "get_access_token"
    /\ last.at + config.refresh_window = last.pre.expiry
    /\ ~last.pre.token.refresh_window.some
    /\ last.ok
    /\ last.ret = "T1"
    /\ last.pre.token.access_token = "T0"

\* C4: a get_access_token() on a store whose token is not due (now +
\* refresh_window < expiry), first call or not, calls neither refresh() nor
\* the token endpoint, returns the stored access token, and leaves the
\* record, the attempt counter and the token file as they were.
C4_FreshTokenIsReturnedAsIs ==
    (last.op = "get_access_token" /\ ~WasDue)
        => /\ last.refreshes = 0
           /\ last.net = 0
           /\ last.ok
           /\ last.ret = last.pre.token.access_token
           /\ store = last.pre
           /\ files = last.preFiles

\* A store that has refreshed once is asked again while its new token is
\* fresh.
C4_Witness ==
    /\ last.op = "get_access_token"
    /\ ~WasDue
    /\ last.pre.refresh_attempts = 1
    /\ last.ret = "T1"
    /\ tally.net = 1

\* C5: after a refresh() that succeeds on a response with access token T and
\* expires_in E, the store's expiry is now + E and its access token T, and
\* the file at the store's path holds access_token T and expiry now + E.
C5_RefreshUpdatesRecordAndFile ==
    RefreshSucceeded
        => LET T == ResponseField("access_token").s
               E == IF ResponseField("expires_in").t = "int"
                    THEN ResponseField("expires_in").n
                    ELSE I64Value[ResponseField("expires_in").s]
           IN  /\ ResponseField("access_token").t = "str"
               /\ E > 0
               /\ store.expiry = now + E
               /\ store.token.access_token = T
               /\ store.path \in DOMAIN files
               /\ files[store.path].kind = "json"
               /\ files[store.path].doc["access_token"] = JStr(T)
               /\ files[store.path].doc["expiry"] = JStr(ToString(now + E))

\* A refresh that began at second 1 and ended at second 2 with a lifetime
\* of 2 left the expiry 4 in the store and in the file.
C5_Witness ==
    /\ RefreshSucceeded
    /\ last.at = 1
    /\ now = 2
    /\ store.expiry = 4
    /\ files[store.path].doc["expiry"] = JStr("4")

\* C6: after a refresh() that succeeds, a refresh_token of the response that
\* differs from the held one is the store's refresh token and the one in the
\* file; when the response has none, or the held one again, the held one
\* stays.
C6_RefreshTokenRotation ==
    RefreshSucceeded
        => LET held == last.pre.token.refresh_token
               j == ResponseField("refresh_token")
           IN  /\ (j.t = "str" /\ j.s # held)
                    => /\ store.token.refresh_token = j.s
                       /\ files[store.path].doc["refresh_token"] = JStr(j.s)
               /\ (j.t = "absent" \/ (j.t = "str" /\ j.s = held))
                    => /\ store.token.refresh_token = held
                       /\ files[store.path].doc["refresh_token"] = JStr(held)

\* The response brought R1 to a store that held R0, and R1 is in the file.
C6_Witness ==
    /\ RefreshSucceeded
    /\ last.pre.token.refresh_token = "R0"
    /\ store.token.refresh_token = "R1"
    /\ files[store.path].doc["refresh_token"] = JStr("R1")

\* The store that TokenStore::new builds from what write() would leave of s.
Reloaded(s) == TokenStoreNew(Write(s, files, now, "ok").files, s.path)

\* C7: a record written by write() and loaded again by TokenStore::new from
\* the same path is a store with the same access token, refresh token and
\* integer expiry, and the same user and overrides.
C7_WriteThenLoad ==
    /\ store.present
        => /\ Reloaded(store).present
           /\ Reloaded(store).token = store.token
           /\ Reloaded(store).expiry = store.expiry
           /\ Reloaded(store).path = store.path
    /\ RefreshSucceeded
        => /\ TokenStoreNew(files, store.path).present
           /\ TokenStoreNew(files, store.path).token = store.token
           /\ TokenStoreNew(files, store.path).expiry = store.expiry

\* A record with a user and the overrides of the client and the endpoint,
\* but no refresh window, has been written by a refresh and loads as it was.
C7_Witness ==
    /\ RefreshSucceeded
    /\ store.token.user = Some("u@file")
    /\ store.token.client_id.some
    /\ store.token.token_endpoint.some
    /\ ~store.token.refresh_window.some
    /\ store.expiry > 0
    /\ TokenStoreNew(files, store.path).token = store.token

\* The access token, the refresh token and the expiry of a store.
Record(s) ==
    [access_token |-> s.token.access_token,
     refresh_token |-> s.token.refresh_token,
     expiry |-> s.expiry]

\* C19: the record in memory (access token, refresh token, expiry) changes
\* only when refresh() returns Ok: after a refresh() that returned an error,
\* a failure to create, write or rename the file included, it is what it was
\* before the call and what the token file holds.
C19_FailedRefreshKeepsRecord ==
    (StoreCalled /\ last.refreshes = 1 /\ last.rc # SASL_OK)
        => /\ Record(store) = Record(last.pre)
           /\ Record(store) = Record(TokenStoreNew(files, store.path))

\* C20: the refresh token of a loaded store is never empty: a token file
\* whose refresh_token is "" does not load, and no response makes the held
\* refresh token empty.
C20_RefreshTokenNeverEmpty ==
    /\ store.present => store.token.refresh_token # ""
    /\ (last.op = "new" /\ last.ret \in DOMAIN last.preFiles
            /\ last.preFiles[last.ret].kind = "json"
            /\ last.preFiles[last.ret].doc["refresh_token"] = JStr(""))
        => ~last.ok

\* The endpoint's answer carries what a refresh needs: a JSON body whose
\* access_token is a string that is not empty and whose expires_in is a
\* positive integer, given as a number or as a numeric string.
ResponseComplete(net) ==
    /\ net.kind = "http"
    /\ net.body.kind = "json"
    /\ AsStr(net.body.doc["access_token"]).some
    /\ AsStr(net.body.doc["access_token"]).v # ""
    /\ ExpiresIn(net.body.doc["expires_in"]).ok
    /\ ExpiresIn(net.body.doc["expires_in"]).n > 0

\* C21: a refresh() that called the token endpoint returns Ok only when the
\* answer is JSON with a non-empty access_token string and a positive
\* expires_in; on an answer that lacks either, whose access_token is empty
\* or whose expires_in is zero or negative, it returns SASL_BADPROT.
C21_RefreshNeedsCompleteResponse ==
    (StoreCalled /\ last.net = 1)
        => /\ last.rc = SASL_OK => ResponseComplete(last.inp.net)
           /\ ~ResponseComplete(last.inp.net) => last.rc = SASL_BADPROT

\* The endpoint did not answer, or answered with a status outside 200..299.
CallFailed(net) ==
    net.kind = "error" \/ net.status < 200 \/ net.status > 299

\* C22: the attempt is counted before the call: every refresh() that called
\* the token endpoint, Ok or not, leaves the counter one higher, so that the
\* counter of a store is the number of calls made for it; and when the call
\* failed in transport or was answered with a status outside 200..299,
\* refresh() returns SASL_BADPROT.
C22_EveryCallIsCounted ==
    /\ store.present => tally.net = store.refresh_attempts
    /\ (StoreCalled /\ last.net = 1)
        => /\ store.refresh_attempts = last.pre.refresh_attempts + 1
           /\ store.refresh_attempts <= MAX_REFRESH_ATTEMPTS
           /\ CallFailed(last.inp.net) => last.rc = SASL_BADPROT

\* A second attempt failed in transport, and was counted.
C22_Witness ==
    /\ StoreCalled
    /\ last.net = 1
    /\ last.inp.net.kind = "error"
    /\ last.rc = SASL_BADPROT
    /\ last.pre.refresh_attempts = 1
    /\ store.refresh_attempts = 2

\* The records that the writers hold.
WrittenRecords ==
    {JsonFile(SerializeTokenFile(writers[w].store.token)) :
        w \in {v \in Writers : writers[v].pc # "idle"}}

\* C26: while several stores, of one process or of several, write the same
\* token file at the same time, what a reader finds at the token path is at
\* every moment the whole record of one of them or the original file, never
\* parts of two records and never a part of one.
C26_TokenFileIsOneRecord ==
    (\E w \in Writers : writers[w].pc # "idle")
        => ReadBack(files["/a"]) \in {JsonFile(BaseDoc)} \cup WrittenRecords


\* The last operation was the step of a session in state Initial that went
\* as far as the token file: it asked the host for nothing and canon_user,
\* if there is one, passed.
FirstStepOpenedFile ==
    /\ last.op = "step"
    /\ last.pre.state = "Initial"
    /\ (last.h.nullptr \/ (auth_name(last.h) # "" /\ password(last.h) # ""))
    /\ last.h.canon \in {"absent", SASL_OK}

\* The file at path p, as the last step found it, is a JSON object with no
\* refresh_token field.
LacksRefreshToken(fs, p) ==
    /\ p \in DOMAIN fs
    /\ fs[p].kind = "json"
    /\ fs[p].doc["refresh_token"].t = "absent"

\* C2: TokenStore::new gives no store for a token file without a
\* refresh_token field, and the first step of a session whose path names
\* such a file returns a failure code, leaves the session in state Initial
\* and without a store, and hands no bytes out.
C2_NoRefreshTokenNoSession ==
    /\ \A p \in DOMAIN files :
            LacksRefreshToken(files, p) => ~TokenStoreNew(files, p).present
    /\ (FirstStepOpenedFile /\ LacksRefreshToken(last.preFiles, password(last.h)))
        => /\ last.rc = SASL_FAIL
           /\ client.state = "Initial"
           /\ ~client.token.present
           /\ last.out = NullOut
           /\ last.net = 0
           /\ files = last.preFiles

\* A first step was given the name and the path of a token file that has an
\* access token, an expiry and a user, but no refresh token.
C2_Witness ==
    /\ FirstStepOpenedFile
    /\ auth_name(last.h) = "a@b.com"
    /\ password(last.h) = "/a"
    /\ LacksRefreshToken(last.preFiles, "/a")
    /\ last.preFiles["/a"].doc["user"] = JStr("u@file")
    /\ last.rc = SASL_FAIL

\* The user field of the token file that the last step opened.
FileUser == last.preFiles[password(last.h)].doc["user"]

\* C8: the bytes that the first step hands out are user=<I>, SOH, auth=Bearer
\* <T>, SOH, SOH and nothing else, T being the access token that
\* get_access_token returned and I the user of the token file when it has
\* one, else the name the host gave.
C8_FirstStepResponse ==
    (last.op = "step" /\ last.pre.state = "Initial" /\ last.rc = SASL_OK)
        => LET I == IF FileUser.t = "str" THEN FileUser.s ELSE auth_name(last.h)
               T == client.token.token.access_token
           IN  /\ FirstStepOpenedFile
               /\ ~last.out.null
               /\ last.out.bytes
                    = "user=" \o I \o SOH \o "auth=Bearer " \o T \o SOH \o SOH
               /\ client.response = last.out.bytes
               /\ client.user = I
               /\ T = IF last.net = 1 THEN ResponseField("access_token").s
                      ELSE last.preFiles[password(last.h)].doc["access_token"].s
               /\ client.state = "TokenSent"

\* The first step sent a refreshed token under the user of the token file,
\* the host having given another name.
C8_Witness ==
    /\ last.op = "step"
    /\ last.pre.state = "Initial"
    /\ last.rc = SASL_OK
    /\ auth_name(last.h) = "a@b.com"
    /\ FileUser = JStr("u@file")
    /\ last.net = 1
    /\ last.out.bytes = "user=u@file" \o SOH \o "auth=Bearer T1" \o SOH \o SOH

\* The last operation was the step of a session in state TokenSent on
\* server bytes that are a JSON object whose status is the string st.
StatusStep(st) ==
    /\ last.op = "step"
    /\ last.pre.state = "TokenSent"
    /\ last.srv.kind = "json"
    /\ last.srv.object
    /\ last.srv.status = JStr(st)

\* What the last step met would let a refresh succeed: attempts are left,
\* the token endpoint answers 200 with an access token and a positive
\* lifetime, and the file can be written.
RefreshCanSucceed ==
    /\ last.pre.token.refresh_attempts < 2
    /\ last.inp.net.kind = "http"
    /\ last.inp.net.status = 200
    /\ last.inp.net.body.kind = "json"
    /\ ResponseField("access_token").t = "str"
    /\ \/ ResponseField("expires_in").t = "int" /\ ResponseField("expires_in").n > 0
       \/ /\ ResponseField("expires_in").t = "str"
          /\ ResponseField("expires_in").s \in I64Texts
          /\ I64Value[ResponseField("expires_in").s] > 0
    /\ last.inp.fs = "ok"

\* C9: in state TokenSent, a step on a JSON object with status "401" or
\* "400" calls refresh() exactly once on the session's store; when the
\* refresh succeeds the step returns SASL_TRYAGAIN, and in every case it
\* hands out a null pointer and length 0 and the state is still TokenSent.
C9_RejectionRefreshesOnce ==
    (StatusStep("401") \/ StatusStep("400"))
        => /\ last.refreshes = 1
           /\ last.net <= 1
           /\ client.token.refresh_attempts
                = last.pre.token.refresh_attempts + last.net
           /\ last.out = NullOut
           /\ client.state = "TokenSent"
           /\ last.rc \in {SASL_TRYAGAIN, SASL_BADPROT, SASL_FAIL}
           /\ (last.net = 1 /\ RefreshCanSucceed) => last.rc = SASL_TRYAGAIN
           /\ last.rc = SASL_TRYAGAIN
                => /\ last.net = 1
                   /\ client.token.token.access_token
                        = ResponseField("access_token").s

\* The server answered "400", the refresh succeeded and the step returned
\* SASL_TRYAGAIN.
C9_Witness ==
    /\ StatusStep("400")
    /\ last.rc = SASL_TRYAGAIN
    /\ last.net = 1
    /\ client.token.token.access_token = "T1"
    /\ client.state = "TokenSent"

\* C10: in state TokenSent, a step on a JSON object whose status is a
\* string that is not empty and neither "400" nor "401" returns
\* SASL_BADPROT, calls neither refresh() nor the token endpoint, leaves the
\* attempt counter, the record and the files as they were, and hands no
\* bytes out.
C10_OtherStatusIsProtocolError ==
    (/\ last.op = "step"
     /\ last.pre.state = "TokenSent"
     /\ last.srv.kind = "json"
     /\ last.srv.object
     /\ last.srv.status.t = "str"
     /\ last.srv.status.s \notin {"", "400", "401"})
        => /\ last.rc = SASL_BADPROT
           /\ last.refreshes = 0
           /\ last.net = 0
           /\ client.token = last.pre.token
           /\ files = last.preFiles
           /\ last.out = NullOut
           /\ client.state = "TokenSent"

\* The server answered "200" to a session whose store had attempts left.
C10_Witness ==
    /\ StatusStep("200")
    /\ last.pre.token.present
    /\ last.pre.token.refresh_attempts = 0
    /\ last.rc = SASL_BADPROT

\* The last operation was the step of a session in state TokenSent on
\* server bytes that carry no status: no bytes at all, bytes that are not
\* JSON, a JSON object without a status field, or one whose status is "".
StatuslessStep ==
    /\ last.op = "step"
    /\ last.pre.state = "TokenSent"
    /\ \/ last.srv.kind = "empty"
       \/ last.srv.kind = "garbage"
       \/ last.srv.kind = "json" /\ last.srv.object /\ last.srv.status = JAbsent
       \/ last.srv.kind = "json" /\ last.srv.object /\ last.srv.status = JStr("")

\* C11: in state TokenSent, a step on empty server bytes, on bytes that are
\* not JSON, on a JSON object without a status field or on one with an empty
\* status string returns SASL_OK, calls neither refresh() nor the token
\* endpoint, and hands no bytes out; the session and the files stay as they
\* were.
C11_NoStatusIsSuccess ==
    StatuslessStep
        => /\ last.rc = SASL_OK
           /\ last.refreshes = 0
           /\ last.net = 0
           /\ last.out = NullOut
           /\ client = last.pre
           /\ files = last.preFiles

\* The server answered with bytes that are not JSON, and the step returned
\* SASL_OK.
C11_Witness ==
    /\ StatuslessStep
    /\ last.srv.kind = "garbage"
    /\ last.rc = SASL_OK
    /\ client.token.present

\* The token file holds the whole record that the stopped refresh had built:
\* a JSON object that loads, with the access token and the lifetime of the
\* response.
HoldsNewRecord(f) ==
    /\ f.kind = "json"
    /\ DeserializeTokenFile(f.doc).ok
    /\ f.doc["access_token"] = ResponseField("access_token")
    /\ f.doc["expiry"]
        = JStr(ToString(now + ExpiresIn(ResponseField("expires_in")).n))
    /\ f.doc["user"] = SerOptString(last.pre.token.user)

\* C12: when the process stops inside write(), before the temporary file is
\* created, while it is written, or before or after the rename, the file at
\* the token path is the whole previous content or the whole new record,
\* never missing, empty or partly written.
C12_CrashLeavesOldOrNew ==
    last.op = "crash"
        => /\ last.pre.path \in DOMAIN files
           /\ files[last.pre.path].kind = "json"
           /\ \/ files[last.pre.path] = last.preFiles[last.pre.path]
              \/ HoldsNewRecord(files[last.pre.path])
           /\ last.ret = "after_rename" => HoldsNewRecord(files[last.pre.path])
           /\ last.ret # "after_rename"
                => files[last.pre.path] = last.preFiles[last.pre.path]
           /\ TokenStoreNew(files, last.pre.path).present

\* The process stopped while the temporary file was being written: that
\* file is partial, and the token file is what it was.
C12_Witness ==
    /\ last.op = "crash"
    /\ last.ret = "in_write"
    /\ \E p \in DOMAIN files : files[p] = PartialFile
    /\ files[last.pre.path] = last.preFiles[last.pre.path]

\* The last operation was the step of a session in state Initial for which,
\* the prompts read and the callbacks asked, the name or the path of the
\* token file is still missing.
CredentialsMissing ==
    /\ last.op = "step"
    /\ last.pre.state = "Initial"
    /\ (auth_name(last.h) = "" \/ password(last.h) = "")

\* The prompt list that names what is missing, and ends with the sentinel.
MissingPrompts ==
    (IF auth_name(last.h) = "" THEN <<SASL_CB_AUTHNAME>> ELSE <<>>)
        \o (IF password(last.h) = "" THEN <<SASL_CB_PASS>> ELSE <<>>)
        \o <<SASL_CB_LIST_END>>

\* C14, as claimed: in state Initial, when the name or the path is still
\* missing, the step returns SASL_INTERACT, stays Initial, hands no bytes
\* out, builds no store, and hands back the list of exactly the missing
\* prompts and the sentinel.
C14_MissingCredentialsAlwaysInteract ==
    CredentialsMissing
        => /\ last.rc = SASL_INTERACT
           /\ client.state = "Initial"
           /\ last.out = NullOut
           /\ last.stores = 0
           /\ last.prompts = MissingPrompts

\* C14, amended: the same when the host passed a prompt pointer that is not
\* null and its malloc gives memory; when its malloc fails the step returns
\* SASL_NOMEM and hands back no list.  In both cases the state stays
\* Initial, no bytes go out and no store is built.
C14_MissingCredentialsInteract ==
    (CredentialsMissing /\ ~last.h.nullptr)
        => /\ client.state = "Initial"
           /\ last.out = NullOut
           /\ last.stores = 0
           /\ last.net = 0
           /\ client.token = last.pre.token
           /\ client.user = last.pre.user
           /\ last.h.malloc = "ok"
                => (last.rc = SASL_INTERACT /\ last.prompts = MissingPrompts)
           /\ last.h.malloc # "ok"
                => (last.rc = SASL_NOMEM /\ last.prompts = <<>>)

\* The host gave the name but an empty path, and was asked for the secret
\* alone.
C14_Witness ==
    /\ CredentialsMissing
    /\ ~last.h.nullptr
    /\ auth_name(last.h) = "a@b.com"
    /\ last.rc = SASL_INTERACT
    /\ last.prompts = <<SASL_CB_PASS, SASL_CB_LIST_END>>

\* C15: as long as a session lives its state is Initial or TokenSent, a
\* step changes it only from Initial to TokenSent, and from TokenSent it
\* never goes back to Initial, whatever the step returns.
C15_StateOnlyAdvances ==
    [][(client.alive /\ client'.alive)
        => /\ client'.state \in {"Initial", "TokenSent"}
           /\ client.state = "TokenSent" => client'.state = "TokenSent"
           /\ client'.state # client.state
                => /\ client.state = "Initial"
                   /\ client'.state = "TokenSent"
                   /\ last'.op = "step"
                   /\ last'.rc = SASL_OK]_vars

\* A step in state TokenSent failed in its refresh, and the state is still
\* TokenSent.
C15_Witness ==
    /\ last.op = "step"
    /\ last.pre.state = "TokenSent"
    /\ last.refreshes = 1
    /\ last.rc = SASL_BADPROT
    /\ client.alive
    /\ client.state = "TokenSent"

\* The last step took the session from Initial to TokenSent and returned
\* SASL_OK.
StepSentToken ==
    /\ last.pre.state = "Initial"
    /\ client.state = "TokenSent"
    /\ last.rc = SASL_OK

\* C16: a step hands bytes to the host, a pointer that is not null and a
\* length above 0, if and only if it takes the session from Initial to
\* TokenSent and returns SASL_OK; every other step hands out a null pointer
\* and length 0.
C16_BytesOnlyOnTransition ==
    last.op = "step"
        => /\ (~last.out.null /\ Len(last.out.bytes) > 0) <=> StepSentToken
           /\ ~StepSentToken => last.out = NullOut
           /\ last.pre.state = "TokenSent" => last.out = NullOut
           /\ last.rc # SASL_OK => last.out = NullOut

\* A step in state TokenSent returned SASL_OK on an empty reply, and handed
\* out nothing although the session holds the response it sent.
C16_Witness ==
    /\ last.op = "step"
    /\ last.pre.state = "TokenSent"
    /\ last.rc = SASL_OK
    /\ client.response # ""
    /\ last.out = NullOut

\* The last operation was the step of a session in state Initial that got
\* as far as canon_user: it asked the host for nothing.
FirstStepWentOn ==
    /\ last.op = "step"
    /\ last.pre.state = "Initial"
    /\ (last.h.nullptr \/ (auth_name(last.h) # "" /\ password(last.h) # ""))

\* The path the last step was given names no file, or a file that is not
\* JSON, or a JSON object without a refresh token.
TokenFileUnusable ==
    \/ password(last.h) \notin DOMAIN last.preFiles
    \/ last.preFiles[password(last.h)].kind # "json"
    \/ last.preFiles[password(last.h)].doc["refresh_token"].t # "str"

\* The token endpoint answered the last refresh with 200, an access token
\* and a positive lifetime.
ResponseUsable ==
    /\ last.inp.net.kind = "http"
    /\ last.inp.net.status = 200
    /\ last.inp.net.body.kind = "json"
    /\ ResponseField("access_token").t = "str"
    /\ ExpiresIn(ResponseField("expires_in")).ok
    /\ ExpiresIn(ResponseField("expires_in")).n > 0

\* C17: in state Initial, a first step whose canon_user fails returns the
\* code canon_user gave, one whose token file does not load returns
\* SASL_FAIL, one whose refresh fails returns SASL_BADPROT, and one whose
\* write of the token file fails returns SASL_FAIL; in each case the state is
\* still Initial, and it is TokenSent only when the step returned SASL_OK.
C17_FirstStepFailuresStayInitial ==
    FirstStepWentOn
        => /\ last.h.canon \notin {"absent", SASL_OK}
                => (last.rc = last.h.canon /\ last.stores = 0)
           /\ (last.h.canon \in {"absent", SASL_OK} /\ TokenFileUnusable)
                => (last.rc = SASL_FAIL /\ last.stores = 0)
           /\ (last.net = 1 /\ ~ResponseUsable) => last.rc = SASL_BADPROT
           /\ (last.net = 1 /\ ResponseUsable /\ last.inp.fs # "ok")
                => last.rc = SASL_FAIL
           /\ last.rc # SASL_OK => client.state = "Initial"
           /\ last.rc = SASL_OK => client.state = "TokenSent"

\* The first step refreshed the token and could not rename the file: it
\* returned SASL_FAIL and the state is Initial.
C17_Witness ==
    /\ FirstStepWentOn
    /\ last.net = 1
    /\ ResponseUsable
    /\ last.inp.fs = "rename_fails"
    /\ last.rc = SASL_FAIL
    /\ client.state = "Initial"

\* The last operation was a step that returned an error: neither success,
\* nor interaction, nor try-again.
StepFailed ==
    /\ last.op = "step"
    /\ last.rc \notin {SASL_OK, SASL_INTERACT, SASL_TRYAGAIN}

\* C18, as claimed: after a step that returns an error the session's state,
\* its identity string, its store (present or absent) and its response
\* buffer are what they were before the step.
C18_FailedStepChangesNothing ==
    StepFailed
        => /\ client.state = last.pre.state
           /\ client.user = last.pre.user
           /\ client.token.present = last.pre.token.present
           /\ client.response = last.pre.response

\* C18, amended: after a step that returns an error the session's state and
\* its response buffer are what they were before the step.  A step that
\* fails in state TokenSent keeps the identity and the store of the session,
\* and a first step that fails before it resolves the token file keeps both
\* too; a first step that fails at or after TokenStore::new has set the
\* identity to the name it resolved, or to the user of the token file, and
\* keeps the store it built, if it built one.
C18_FailedStepKeepsStateAndResponse ==
    StepFailed
        => /\ client.state = last.pre.state
           /\ client.response = last.pre.response
           /\ last.pre.state = "TokenSent"
                => /\ client.user = last.pre.user
                   /\ client.token.present
                   /\ client.token.path = last.pre.token.path
           /\ (last.pre.state = "Initial" /\ ~FirstStepOpenedFile)
                => (client.user = last.pre.user /\ client.token = last.pre.token)
           /\ (FirstStepOpenedFile /\ last.stores = 0)
                => (client.user = auth_name(last.h) /\ client.token = last.pre.token)
           /\ (FirstStepOpenedFile /\ last.stores = 1)
                => /\ client.user
                        = IF FileUser.t = "str" THEN FileUser.s ELSE auth_name(last.h)
                   /\ client.token.present
                   /\ client.token.path = password(last.h)

\* A first step failed in its refresh: the state is Initial and the response
\* empty as before, but the session now has a name and a store.
C18_Witness ==
    /\ StepFailed
    /\ last.pre.state = "Initial"
    /\ last.rc = SASL_BADPROT
    /\ last.pre.user = ""
    /\ ~last.pre.token.present
    /\ client.user = "a@b.com"
    /\ client.token.present
    /\ client.state = "Initial"
    /\ client.response = ""

\* The last operation was a first step that called the host's canon_user.
CanonCalled == last.op = "step" /\ last.pre.state = "Initial" /\ last.canon.some

\* C23: in a first step of a host that offers canon_user, the token file is
\* opened only after the hook was called on the name and returned SASL_OK;
\* when the hook returns another code the step returns that code, and it
\* has opened no token file, built no store and called no token endpoint:
\* the session, the files and the clock are as they were.
C23_CanonBeforeStore ==
    /\ (last.op = "step" /\ last.pre.state = "Initial"
            /\ last.h.canon # "absent" /\ last.loads > 0)
        => /\ last.canon = Some(auth_name(last.h))
           /\ last.h.canon = SASL_OK
    /\ (CanonCalled /\ last.h.canon # SASL_OK)
        => /\ last.rc = last.h.canon
           /\ last.loads = 0
           /\ last.stores = 0
           /\ last.net = 0
           /\ last.out = NullOut
           /\ [client EXCEPT !.flush_on_destroy = FALSE]
                = [last.pre EXCEPT !.flush_on_destroy = FALSE]
           /\ files = last.preFiles
           /\ now = last.at

\* canon_user refused a name whose token file would have loaded.
C23_Witness ==
    /\ CanonCalled
    /\ last.h.canon = SASL_NOUSER
    /\ last.rc = SASL_NOUSER
    /\ last.canon = Some("a@b.com")
    /\ TokenStoreNew(last.preFiles, password(last.h)).present

\* C24: the log of a session is flushed when the session is torn down, once,
\* if and only if one of its steps returned a code other than SASL_OK and
\* SASL_INTERACT, SASL_TRYAGAIN included; a step that returns SASL_OK later
\* does not take the flush back, and a session whose steps all returned
\* SASL_OK or SASL_INTERACT flushes nothing.
C24_FlushIffAStepFailed ==
    /\ client.alive => client.flush_on_destroy = tally.failed
    /\ (last.op = "step" /\ last.rc = SASL_TRYAGAIN) => client.flush_on_destroy
    /\ last.op = "dispose"
        => /\ last.flushes = IF tally.failed THEN 1 ELSE 0
           /\ ~client.alive

\* A session is torn down after a step that failed and a later one that
\* returned SASL_OK, and flushes.
C24_Witness ==
    /\ last.op = "dispose"
    /\ tally.failed
    /\ tally.recovered
    /\ last.pre.state = "TokenSent"
    /\ last.flushes = 1

\* The last operation was a step in state TokenSent on a server status of
\* "400" or "401".
RejectionStep ==
    /\ last.op = "step"
    /\ last.pre.state = "TokenSent"
    /\ ServerStatus(last.srv).some
    /\ ServerStatus(last.srv).v \in {"400", "401"}

\* C27: a session never returns SASL_TRYAGAIN more than twice; a step on
\* "400" or "401" calls the token endpoint at most once, and once the
\* session's store has made its two attempts every such step returns an
\* error and calls nothing; when two steps have returned SASL_TRYAGAIN the
\* attempts are used up.
C27_RetryIsBounded ==
    /\ tally.tryagain <= MAX_REFRESH_ATTEMPTS
    /\ (client.alive /\ tally.tryagain = MAX_REFRESH_ATTEMPTS)
        => client.token.refresh_attempts = MAX_REFRESH_ATTEMPTS
    /\ RejectionStep
        => /\ last.net <= 1
           /\ last.pre.token.refresh_attempts >= MAX_REFRESH_ATTEMPTS
                => /\ last.rc \notin {SASL_OK, SASL_INTERACT, SASL_TRYAGAIN}
                   /\ last.net = 0
                   /\ client.state = "TokenSent"
                   /\ client.token.refresh_attempts = MAX_REFRESH_ATTEMPTS

\* A third "401" in a row: the first two steps returned SASL_TRYAGAIN, this
\* one returns an error without a call.
C27_Witness ==
    /\ RejectionStep
    /\ tally.tryagain = 2
    /\ tally.net = 2
    /\ last.rc = SASL_BADPROT
    /\ last.net = 0

\* C28: over all the steps of one session, first steps taken again after
\* SASL_INTERACT or after a failure included, the session builds at most one
\* store and calls the token endpoint at most twice.
C28_OneStorePerSession ==
    /\ tally.stores <= 1
    /\ tally.net <= MAX_REFRESH_ATTEMPTS

\* C30: a session in state TokenSent owns a store, so that a step on "400"
\* or "401" always calls refresh() on it and takes its result: it never
\* falls through to the protocol error of the other statuses.
C30_TokenSentOwnsStore ==
    /\ (client.alive /\ client.state = "TokenSent") => client.token.present
    /\ RejectionStep
        => /\ last.pre.token.present
           /\ last.refreshes = 1
           /\ last.rc =
                IF Refresh(last.pre.token, last.preFiles, last.at, config, last.inp).rc
                    = SASL_OK
                THEN SASL_TRYAGAIN
                ELSE Refresh(last.pre.token, last.preFiles, last.at, config, last.inp).rc

\* A step on "400" refreshed the store of the session and asks for the
\* exchange to be tried again.
C30_Witness ==
    /\ RejectionStep
    /\ ServerStatus(last.srv).v = "400"
    /\ last.pre.token.present
    /\ last.refreshes = 1
    /\ last.net = 1
    /\ last.rc = SASL_TRYAGAIN

\* The last operation was a step in TokenSent on bytes of the server.
TokenSentStepOnBytes ==
    /\ last.op = "step"
    /\ last.pre.state = "TokenSent"
    /\ last.srv.kind # "empty"

\* The server's bytes are a JSON object whose "status" is a string.
StatusIsString(srv) ==
    srv.kind = "json" /\ srv.object /\ srv.status.t = "str"

\* C32: in TokenSent a step refreshes or returns SASL_BADPROT only when the
\* server's bytes are a JSON object whose "status" is a string; on JSON that
\* is not an object, and on an object whose status is a number, a boolean,
\* null, an array or an object, the step returns SASL_OK, calls no refresh
\* and no endpoint, and leaves the files and the store as they were.
C32_OnlyStringStatusActs ==
    /\ (TokenSentStepOnBytes /\ (last.refreshes # 0 \/ last.rc = SASL_BADPROT))
        => StatusIsString(last.srv)
    /\ (TokenSentStepOnBytes /\ last.srv.kind = "json"
            /\ (~last.srv.object
                    \/ last.srv.status.t \in {"int", "bool", "null", "other"}))
        => /\ last.rc = SASL_OK
           /\ last.refreshes = 0
           /\ last.net = 0
           /\ files = last.preFiles
           /\ client.token = last.pre.token

\* A step in TokenSent on {"status": 401}, the number, succeeded without a
\* refresh.
C32_Witness ==
    /\ TokenSentStepOnBytes
    /\ last.srv = Reply("json", TRUE, JInt(401))
    /\ last.pre.token.present
    /\ last.rc = SASL_OK
    /\ last.refreshes = 0

----------------------------------------------------------------------------
(* Properties of the session's error codes, stated of FailureSpec *)

\* The last operation was a step that called refresh().
StepRefreshed == last.op = "step" /\ last.refreshes = 1

\* The endpoint's answer is not JSON, or lacks a string access_token or an
\* integer expires_in above zero.
Malformed(net) ==
    \/ net.body.kind # "json"
    \/ ~AsStr(net.body.doc["access_token"]).some
    \/ ~ExpiresIn(net.body.doc["expires_in"]).ok
    \/ ExpiresIn(net.body.doc["expires_in"]).n <= 0

----------------------------------------------------------------------------
(* Properties of the hand-over between exchanges, stated of HandOverSpec *)

\* The last operation was a first step of a session created after the one
\* that handed over: the host gives a name and the path of the hand-over,
\* its canon_user hook, if it has one, passes, and the token file is as the
\* refresh left it.
HandedOverTo ==
    /\ last.op = "step"
    /\ last.pre.state = "Initial"
    /\ last.handed.some
    /\ last.handed.session < tally.sessions
    /\ auth_name(last.h) # ""
    /\ password(last.h) = last.handed.path
    /\ last.h.canon \in {"absent", SASL_OK}
    /\ last.handed.path \in DOMAIN last.preFiles
    /\ last.preFiles[last.handed.path] = last.handed.file

\* The token is fresh at clock t for the store that loads from fs at path:
\* t + refresh_window < the persisted expiry.
FreshOnDisk(fs, path, t) ==
    /\ TokenStoreNew(fs, path).present
    /\ t + RefreshWindow(TokenStoreNew(fs, path), config)
            < TokenStoreNew(fs, path).expiry

\* C31: a step that returns SASL_TRYAGAIN leaves in the token file the
\* access token the endpoint gave and the expiry of the session's store;
\* and while no one else writes the file, the first step of a later session
\* for that path, taken while now + refresh_window < the persisted expiry,
\* returns SASL_OK, sends that access token and calls no endpoint.
C31_HandOver ==
    /\ (last.op = "step" /\ last.rc = SASL_TRYAGAIN)
        => /\ tally.handed.some
           /\ TokenStoreNew(files, tally.handed.path).present
           /\ TokenStoreNew(files, tally.handed.path).token.access_token
                = tally.handed.access
           /\ TokenStoreNew(files, tally.handed.path).expiry = client.token.expiry
    /\ (HandedOverTo /\ FreshOnDisk(last.preFiles, last.handed.path, last.at))
        => /\ last.rc = SASL_OK
           /\ last.out = Out(XOAuth2Response(client.user, last.handed.access))
           /\ last.net = 0
           /\ last.refreshes = 0
           /\ files = last.preFiles

\* The second session, for the identity of the first, sent in its first
\* step the access token that the first session's refresh obtained.
C31_Witness ==
    /\ HandedOverTo
    /\ FreshOnDisk(last.preFiles, last.handed.path, last.at)
    /\ last.handed.session = 1
    /\ tally.sessions = 2
    /\ last.handed.access = "T1"
    /\ client.user = last.handed.user
    /\ client.state = "TokenSent"
    /\ last.out = Out(XOAuth2Response(client.user, "T1"))
    /\ last.net = 0

----------------------------------------------------------------------------
(* Properties of the configuration, stated of ConfigSpec *)

\* The file that the last init was pointed at is missing, is not JSON, or
\* has a field of the wrong type.
ConfigUnreadable ==
    \/ last.ret \notin DOMAIN last.preFiles
    \/ last.preFiles[last.ret].kind # "json"
    \/ \E f \in {"client_id", "client_secret", "token_endpoint"} :
            last.preFiles[last.ret].doc[f].t \notin {"str", "absent"}
    \/ \E f \in {"log_to_syslog_on_failure", "always_log_to_syslog",
                 "log_full_trace_on_failure"} :
            last.preFiles[last.ret].doc[f].t \notin {"bool", "absent"}
    \/ last.preFiles[last.ret].doc["refresh_window"].t \notin {"int", "absent"}

\* C13: the configuration is written once.  An init on a missing or
\* unparsable file returns SASL_FAIL and leaves the configuration as it
\* was, unset if it was unset; the first init that succeeds sets it from
\* its file; every later init, whatever it reads and returns, leaves the
\* values that Config::get gives unchanged.
C13_ConfigIsWriteOnce ==
    /\ ~config.set => config = NoConfig
    /\ last.op = "init"
        => /\ ConfigUnreadable => (last.rc = SASL_FAIL /\ config = last.pre)
           /\ ~ConfigUnreadable => last.rc = SASL_OK
           /\ (~last.pre.set /\ last.rc = SASL_OK)
                => /\ config.set
                   /\ config = DeserializeConfig(last.preFiles[last.ret].doc).config
                   /\ last.preFiles[last.ret].doc["client_id"].t = "str"
                        => config.client_id = last.preFiles[last.ret].doc["client_id"].s
                   /\ last.preFiles[last.ret].doc["refresh_window"].t = "absent"
                        => config.refresh_window = 10
           /\ last.pre.set => config = last.pre

\* A second init read another, good file and returned SASL_OK, and the
\* configuration is still that of the first.
C13_Witness ==
    /\ last.op = "init"
    /\ last.pre.set
    /\ last.rc = SASL_OK
    /\ last.preFiles[last.ret].doc["client_id"] = JStr("id2")
    /\ config.client_id = "id1"
    /\ config.refresh_window = 5

----------------------------------------------------------------------------
(* Properties of the Log, stated of LogSpec *)

\* The entry that syslog shows for a message: the message under the
\* plugin's prefix, or an empty entry when the message has a NUL byte.
Entry(msg) == IF msg = FromServerNul THEN "" ELSE "sasl-xoauth2: " \o msg

\* The entries of the messages recorded so far, in recording order.
Recorded == [i \in 1..Len(tally.written) |-> Entry(tally.written[i])]

\* The last operation called flush(): by itself, or in the drop of a marked
\* Log.
Flushed ==
    last.op = "flush" \/ (last.op = "drop" /\ last.pre.flush_on_destroy)

\* What syslog held before the last operation.
SyslogBefore == SubSeq(syslog, 1, last.at)

====
